---- MODULE Spec2Model ----
(***************************************************************************)
(* MQTT v5 packet handler of the broker (Mqtt5Service in                   *)
(* src/mqtt-broker/src/handler/mqtt5.rs).  One action per handler method;  *)
(* a handler is one step from the caches and stores it reads to the        *)
(* caches and stores it leaves and the packet it returns.  The collaborat- *)
(* ors the handler calls (metadata cache, idempotency table, storage       *)
(* facades, subscribe cache, ack builder) are operators over the same      *)
(* state.                                                                  *)
(***************************************************************************)
EXTENDS Integers, Sequences, FiniteSets, TLC

VARIABLES
    cluster_max_qos,   \* metadata cache: max_qos of the cluster configuration
    connection_info,   \* metadata cache: connect_id -> Connection | NoConn
    session_info,      \* metadata cache: client_ids that have a session
    heartbeat,         \* heartbeat cache: connect_ids with a heartbeat record
    qos_pkid,          \* idempotency table of QoS 2: {<<client_id, pkid>>}
    sub_pkid,          \* idempotency table, subscribe: {<<client_id, pkid>>}
    retain_store,      \* retained-message store: topic_id -> message | NoMsg
    message_log,       \* message log: topic_id -> sequence of records
    client_subscribe,  \* metadata cache index: client_id -> set of filter paths
    subscribe_cache,   \* subscribe cache: client_id -> set of filter paths
    ack_manager,       \* ack waiter registry: registered {<<client_id, pkid>>}
    ack_channel,       \* <<client_id, pkid>> -> data sent to the waiter
    closed,            \* connect_ids whose DISCONNECT was handled and on which
                       \* no CONNECT has succeeded since
    runtime,           \* MqttBroker::start: its position, the servers and
                       \* background tasks spawned, their stop receivers
    handler,           \* connect_id -> the publish or subscribe call in
                       \* progress on the connection: its position, the
                       \* map guards it holds, its locals
    last               \* the last handler call: operation, connection and reply

vars == <<cluster_max_qos, connection_info, session_info, heartbeat,
          qos_pkid, sub_pkid, retain_store, message_log, client_subscribe,
          subscribe_cache, ack_manager, ack_channel, closed, runtime,
          handler, last>>

----------------------------------------------------------------------------
\* Bounds of the model.

\* Records the message log holds in total before appends stop being offered.
MaxLog == 2

\* connect_ids minted by the accept loop.
ConnectIds == {1, 2}

\* client identifiers carried by CONNECT.
ClientIds == {"c1", "c2"}

\* packet identifiers.
Pkids == {1, 2}

\* topic names (a topic_id is identified with its topic name).
Topics == {"a/b"}

\* a topic name that publish_get_topic_name cannot resolve.
NoTopic == ""

NoConn == [client_id |-> "", max_packet_size |-> 0]

NoMsg == [client_id |-> "", payload |-> <<>>]

\* QoS levels: AtMostOnce, AtLeastOnce, ExactlyOnce.
QoS == {0, 1, 2}


\* max_packet_size values a CONNECT negotiates.
PacketSizes == {1}

\* payloads of PUBLISH, from empty to longer than every max_packet_size.
Payloads == {<<>>, <<7>>, <<7, 7>>}

----------------------------------------------------------------------------
\* Ack builder (super::packet): constructors of reply packets.

NoReply == [kind |-> "None"]

\* The record of the last call before any packet is handled.
NoCall == [op |-> "none", connect_id |-> 0, pkid |-> 0, qos |-> 0,
           filters |-> <<>>, replay |-> FALSE, reply |-> NoReply]

packet_connect_fail(code) == [kind |-> "ConnAck", reason |-> code]

packet_connect_success == [kind |-> "ConnAck", reason |-> "Success"]

pub_ack_fail(reason) ==
    [kind |-> "PubAck", pkid |-> 0, reason |-> reason, user_properties |-> <<>>]

pub_ack(pkid, user_properties) ==
    [kind |-> "PubAck", pkid |-> pkid, reason |-> "Success",
     user_properties |-> user_properties]

pub_rec(pkid, user_properties) ==
    [kind |-> "PubRec", pkid |-> pkid, reason |-> "Success",
     user_properties |-> user_properties]

publish_comp_fail(pkid) ==
    [kind |-> "PubComp", pkid |-> pkid, reason |-> "PacketIdentifierNotFound"]

publish_comp_success(pkid) ==
    [kind |-> "PubComp", pkid |-> pkid, reason |-> "Success"]

distinct(reason, reason_string) ==
    [kind |-> "Disconnect", reason |-> reason, reason_string |-> reason_string]

\* RobustMQError::NotFoundConnectionInCache(connect_id).to_string()
NotFoundConnectionInCache == "not found connection in cache"

\* The reply of a handler that finds no Connection of the connect_id.
NotFoundConnection == distinct("UnspecifiedError", NotFoundConnectionInCache)

\* the opaque error string of a failed storage call
StorageError == "storage error"

----------------------------------------------------------------------------
\* Metadata cache, heartbeat cache, idempotency table, storage facades.

\* add_connection: a Connection of the same client_id under another
\* connect_id is removed before the new entry is inserted.
add_connection(info, connect_id, connection) ==
    [c \in ConnectIds |->
        IF c = connect_id THEN connection
        ELSE IF info[c] # NoConn /\ info[c].client_id = connection.client_id
             THEN NoConn
             ELSE info[c]]

remove_connection(info, connect_id) == [info EXCEPT ![connect_id] = NoConn]

create_connection(client_id, max_packet_size) ==
    [client_id |-> client_id, max_packet_size |-> max_packet_size]

get_qos_pkid_data(table, client_id, pkid) == <<client_id, pkid>> \in table

save_qos_pkid_data(table, client_id, pkid) == table \cup {<<client_id, pkid>>}

delete_qos_pkid_data(table, client_id, pkid) == table \ {<<client_id, pkid>>}

\* publish_get_topic_name: the name the packet's topic or alias resolves to.
publish_get_topic_name(packet) ==
    IF packet.topic = NoTopic THEN [ok |-> FALSE, name |-> NoTopic]
    ELSE [ok |-> TRUE, name |-> packet.topic]

\* MQTTMessage::build_message
build_message(client_id, packet) ==
    [client_id |-> client_id, payload |-> packet.payload]

\* MQTTMessage::build_record: the record of the message, when the payload is
\* not empty (<<>> stands for None, <<record>> for Some(record)).
build_record(client_id, packet) ==
    IF packet.payload = <<>> THEN <<>>
    ELSE <<build_message(client_id, packet)>>

\* TopicStorage::save_retain_message
save_retain_message(store, topic_id, message) ==
    [store EXCEPT ![topic_id] = message]

\* MessageStorage::append_topic_message: the log after the append and the
\* offsets of the appended records.
append_topic_message(log, topic_id, records) ==
    [log |-> [log EXCEPT ![topic_id] = log[topic_id] \o records],
     offsets |-> [i \in 1..Len(records) |-> Len(log[topic_id]) + i - 1]]

\* format!("{:?}", da)
FormatDebug(da) == ToString(da)

LogTotal(log) ==
    LET RECURSIVE Sum(_)
        Sum(S) == IF S = {} THEN 0
                  ELSE LET t == CHOOSE x \in S : TRUE
                       IN Len(log[t]) + Sum(S \ {t})
    IN Sum(Topics)

----------------------------------------------------------------------------
\* Subscribe side collaborators (subscribe::sub_common, SubscribeCache,
\* MetadataCacheManager).

\* sub_path_validator: a filter path is a sequence of levels; it is not
\* empty and "#" stands only at its last level.
sub_path_validator(path) ==
    /\ Len(path) > 0
    /\ \A i \in 1..Len(path) : path[i] = "#" => i = Len(path)

min_qos(a, b) == IF a < b THEN a ELSE b

FilterPathsOf(filters) == {filters[i].path : i \in 1..Len(filters)}

\* MetadataCacheManager::add_client_subscribe: the filters of the packet
\* replace those of the same path of the client.
add_client_subscribe(index, client_id, packet) ==
    [index EXCEPT ![client_id] = @ \cup FilterPathsOf(packet.filters)]

\* MetadataCacheManager::remove_filter_by_pkid
remove_filter_by_pkid(index, client_id, paths) ==
    [index EXCEPT ![client_id] = @ \ paths]

\* SubscribeCache::add_subscribe: validates again and indexes the filters.
add_subscribe(cache, client_id, packet) ==
    [cache EXCEPT ![client_id] =
        @ \cup {q \in FilterPathsOf(packet.filters) : sub_path_validator(q)}]

\* SubscribeCache::remove_subscribe
remove_subscribe(cache, client_id, paths) ==
    [cache EXCEPT ![client_id] = @ \ paths]

\* SubscribeCache::remove_client
remove_client(cache, client_id) == [cache EXCEPT ![client_id] = {}]

sub_ack(pkid, return_codes) ==
    [kind |-> "SubAck", pkid |-> pkid, return_codes |-> return_codes]

unsub_ack(pkid, reasons) ==
    [kind |-> "UnsubAck", pkid |-> pkid, reasons |-> reasons]

ping_resp == [kind |-> "PingResp"]

----------------------------------------------------------------------------
\* get_connection that answers a default Connection for an unknown connect_id.
get_connection_default(connect_id) ==
    IF connection_info[connect_id] = NoConn
    THEN [client_id |-> "c1", max_packet_size |-> 1]
    ELSE connection_info[connect_id]

\* The lookup self.metadata_cache.connection_info.get(&connect_id) of the
\* handlers (NoConn stands for None).
get_connection(connect_id) == connection_info[connect_id]

----------------------------------------------------------------------------
\* Mqtt5Service::connect

\* connect_add_connection with the entry written straight into the map.
connect_add_connection_insert(connect_id, connection) ==
    [connection_info EXCEPT ![connect_id] = connection]

\* The connection cache update of connect.
connect_add_connection(connect_id, connection) ==
    add_connection(connection_info, connect_id, connection)

\* connect that saves the session before build_session is known to succeed.
connect_session_first(connect_id, client_id, max_packet_size, env) ==
    LET unchanged == [connection_info |-> connection_info,
                      session_info |-> session_info,
                      heartbeat |-> heartbeat]
    IN  IF env.auth = "false"
        THEN [reply |-> packet_connect_fail("NotAuthorized")] @@ unchanged
        ELSE IF env.auth = "err"
        THEN [reply |-> packet_connect_fail("ServiceUnavailable")] @@ unchanged
        ELSE IF ~env.client_id_ok
        THEN [reply |-> packet_connect_fail("BadClientId")] @@ unchanged
        ELSE IF ~env.session_ok
        THEN [reply |-> packet_connect_fail("ServiceUnavailable"),
              session_info |-> session_info \cup {client_id}] @@ unchanged
        ELSE LET connection == create_connection(client_id, max_packet_size)
             IN  [reply |-> packet_connect_success,
                  session_info |-> session_info \cup {client_id},
                  connection_info |->
                      connect_add_connection(connect_id, connection),
                  heartbeat |-> heartbeat \cup {connect_id}]

\* connect: env.auth is the result of authentication_login ("true", "false"
\* or "err"), env.client_id_ok that of get_client_id, env.session_ok that of
\* build_session.
connect(connect_id, client_id, max_packet_size, env) ==
    LET unchanged == [connection_info |-> connection_info,
                      session_info |-> session_info,
                      heartbeat |-> heartbeat]
    IN  IF env.auth = "false"
        THEN [reply |-> packet_connect_fail("NotAuthorized")] @@ unchanged
        ELSE IF env.auth = "err"
        THEN [reply |-> packet_connect_fail("ServiceUnavailable")] @@ unchanged
        ELSE IF ~env.client_id_ok
        THEN [reply |-> packet_connect_fail("BadClientId")] @@ unchanged
        ELSE IF ~env.session_ok
        THEN [reply |-> packet_connect_fail("ServiceUnavailable")] @@ unchanged
        ELSE LET connection == create_connection(client_id, max_packet_size)
             IN  [reply |-> packet_connect_success,
                  session_info |-> session_info \cup {client_id},
                  connection_info |->
                      connect_add_connection(connect_id, connection),
                  heartbeat |-> heartbeat \cup {connect_id}]

Connect(connect_id, client_id, max_packet_size, env) ==
    LET r == connect(connect_id, client_id, max_packet_size, env)
    IN  /\ connection_info' = r.connection_info
        /\ session_info' = r.session_info
        /\ heartbeat' = r.heartbeat
        /\ closed' = IF r.reply = packet_connect_success
                     THEN closed \ {connect_id} ELSE closed
        /\ last' = [op |-> "connect", connect_id |-> connect_id,
                    pkid |-> 0, qos |-> 0, filters |-> <<>>,
                    replay |-> FALSE, reply |-> r.reply]
        /\ UNCHANGED <<runtime, handler>>
        /\ UNCHANGED <<ack_manager, ack_channel, cluster_max_qos, qos_pkid,
                       sub_pkid, retain_store, message_log, client_subscribe,
                       subscribe_cache>>

----------------------------------------------------------------------------
\* Mqtt5Service::publish

\* publish_pkid_in_use that finds no pair.
publish_pkid_in_use_never(client_id, packet) == FALSE

\* publish_pkid_in_use looking the pair up in the subscribe table.
publish_pkid_in_use_sub(client_id, packet) ==
    get_qos_pkid_data(sub_pkid, client_id, packet.pkid)

\* The duplicate packet identifier check of publish.
publish_pkid_in_use(client_id, packet) ==
    get_qos_pkid_data(qos_pkid, client_id, packet.pkid)

\* publish_payload_invalid with an exclusive upper bound.
publish_payload_invalid_strict(connection, packet) ==
    \/ Len(packet.payload) = 0
    \/ Len(packet.payload) >= connection.max_packet_size

\* The payload policy of publish.
publish_payload_invalid(connection, packet) ==
    \/ Len(packet.payload) = 0
    \/ Len(packet.payload) > connection.max_packet_size

\* publish_reply without the save of the pair of a QoS 2 publish.
publish_reply_nosave(connection, packet, user_properties) ==
    CASE packet.qos = 0 ->
            [reply |-> NoReply, qos_pkid |-> qos_pkid]
      [] packet.qos = 1 ->
            [reply |-> pub_ack(packet.pkid, user_properties),
             qos_pkid |-> qos_pkid]
      [] packet.qos = 2 ->
            [reply |-> pub_rec(packet.pkid, user_properties),
             qos_pkid |-> qos_pkid]

\* The reply of publish by QoS level, and the idempotency table it leaves.
publish_reply(connection, packet, user_properties) ==
    CASE packet.qos = 0 ->
            [reply |-> NoReply, qos_pkid |-> qos_pkid]
      [] packet.qos = 1 ->
            [reply |-> pub_ack(packet.pkid, user_properties),
             qos_pkid |-> qos_pkid]
      [] packet.qos = 2 ->
            [reply |-> pub_rec(packet.pkid, user_properties),
             qos_pkid |-> save_qos_pkid_data(qos_pkid, connection.client_id,
                                             packet.pkid)]

\* publish_storage_error answering with a failed PUBACK.
publish_storage_error_ack == pub_ack_fail("UnspecifiedError")

\* The reply of publish when the retained-store save or the append fails.
publish_storage_error == distinct("UnspecifiedError", StorageError)

\* The retained-message step of publish: the store it leaves when the save
\* succeeds.
publish_save_retain(topic_id, client_id, packet) ==
    IF packet.retain
    THEN save_retain_message(retain_store, topic_id,
                             build_message(client_id, packet))
    ELSE retain_store

\* publish: env.topic_ok is the result of get_topic_info, env.retain_ok that
\* of save_retain_message, env.append_ok that of append_topic_message.
publish(connect_id, packet, env) ==
    LET unchanged == [qos_pkid |-> qos_pkid, retain_store |-> retain_store,
                      message_log |-> message_log]
        topic_name == publish_get_topic_name(packet)
        topic_id == topic_name.name
        connection == get_connection(connect_id)
        client_id == connection.client_id
    IN  IF ~topic_name.ok
        THEN [reply |-> pub_ack_fail("UnspecifiedError")] @@ unchanged
        ELSE IF ~env.topic_ok
        THEN [reply |-> pub_ack_fail("UnspecifiedError")] @@ unchanged
        ELSE IF connection = NoConn
        THEN [reply |-> distinct("UnspecifiedError",
                                 NotFoundConnectionInCache)] @@ unchanged
        ELSE IF publish_payload_invalid(connection, packet)
        THEN [reply |-> pub_ack_fail("PayloadFormatInvalid")] @@ unchanged
        ELSE IF publish_pkid_in_use(client_id, packet)
        THEN [reply |-> pub_ack_fail("PacketIdentifierInUse")] @@ unchanged
        ELSE IF packet.retain /\ ~env.retain_ok
        THEN [reply |-> publish_storage_error] @@ unchanged
        ELSE LET retained == publish_save_retain(topic_id, client_id, packet)
                 record == build_record(client_id, packet)
             IN  IF record # <<>> /\ ~env.append_ok
                 THEN [reply |-> publish_storage_error,
                       retain_store |-> retained] @@ unchanged
                 ELSE LET appended ==
                              append_topic_message(message_log, topic_id,
                                                   record)
                          offset == IF record # <<>>
                                    THEN FormatDebug(appended.offsets)
                                    ELSE "-1"
                          answer == publish_reply(connection, packet,
                                                  <<<<"offset", offset>>>>)
                      IN  [reply |-> answer.reply,
                           qos_pkid |-> answer.qos_pkid,
                           retain_store |-> retained,
                           message_log |-> appended.log]

Publish(connect_id, pub, env) ==
    LET r == publish(connect_id, pub, env)
    IN  /\ LogTotal(r.message_log) <= MaxLog
        /\ qos_pkid' = r.qos_pkid
        /\ retain_store' = r.retain_store
        /\ message_log' = r.message_log
        /\ last' = [op |-> "publish", connect_id |-> connect_id,
                    pkid |-> pub.pkid, qos |-> pub.qos,
                    filters |-> <<>>, replay |-> FALSE, reply |-> r.reply]
        /\ UNCHANGED <<runtime, handler>>
        /\ UNCHANGED <<ack_manager, ack_channel, closed, cluster_max_qos,
                       connection_info, session_info, heartbeat, sub_pkid,
                       client_subscribe, subscribe_cache>>

----------------------------------------------------------------------------
\* Mqtt5Service::publish_rel

\* publish_rel_delete that leaves the entry in the table.
publish_rel_delete_keep(client_id, pkid) == qos_pkid

\* The idempotency table publish_rel leaves when the entry is present.
publish_rel_delete(client_id, pkid) ==
    delete_qos_pkid_data(qos_pkid, client_id, pkid)

\* publish_rel_absent that finds every pair present.
publish_rel_absent_never(client_id, pkid) == FALSE

\* The check of publish_rel that the pair is not in the table.
publish_rel_absent(client_id, pkid) ==
    ~get_qos_pkid_data(qos_pkid, client_id, pkid)

publish_rel(connect_id, pkid) ==
    LET connection == get_connection(connect_id)
        client_id == connection.client_id
    IN  IF connection = NoConn
        THEN [reply |-> distinct("UnspecifiedError",
                                 NotFoundConnectionInCache),
              qos_pkid |-> qos_pkid]
        ELSE IF publish_rel_absent(client_id, pkid)
        THEN [reply |-> publish_comp_fail(pkid), qos_pkid |-> qos_pkid]
        ELSE [reply |-> publish_comp_success(pkid),
              qos_pkid |-> publish_rel_delete(client_id, pkid)]

PubRel(connect_id, pkid) ==
    LET r == publish_rel(connect_id, pkid)
    IN  /\ qos_pkid' = r.qos_pkid
        /\ last' = [op |-> "publish_rel", connect_id |-> connect_id,
                    pkid |-> pkid, qos |-> 0, filters |-> <<>>,
                    replay |-> FALSE, reply |-> r.reply]
        /\ UNCHANGED <<runtime, handler>>
        /\ UNCHANGED <<ack_manager, ack_channel, closed, cluster_max_qos,
                       connection_info, session_info, heartbeat, sub_pkid,
                       retain_store, message_log, client_subscribe,
                       subscribe_cache>>

----------------------------------------------------------------------------
\* Ack waiter registry (AckManager) and the push workers that use it.

AckTypes == {"PubAck", "PubRec", "PubComp"}

\* Data sent to the waiters in total before forwards stop being offered.
MaxAcks == 2

AckPackageData(ack_type, pkid) == [ack_type |-> ack_type, pkid |-> pkid]

\* AckManager::get: whether a waiter is registered for the pair.
ack_manager_get(client_id, pkid) == <<client_id, pkid>> \in ack_manager

pub_rel(pkid, reason) == [kind |-> "PubRel", pkid |-> pkid, reason |-> reason]

AckTotal(channel) ==
    LET RECURSIVE Sum(_)
        Sum(S) == IF S = {} THEN 0
                  ELSE LET w == CHOOSE x \in S : TRUE
                       IN Len(channel[w]) + Sum(S \ {w})
    IN Sum(DOMAIN channel)

\* A push worker registers the waiter of a pair before it sends a publish.
Register(client_id, pkid) ==
    /\ <<client_id, pkid>> \notin ack_manager
    /\ ack_manager' = ack_manager \cup {<<client_id, pkid>>}
    /\ last' = [NoCall EXCEPT !.op = "register", !.pkid = pkid]
    /\ UNCHANGED <<runtime, handler>>
    /\ UNCHANGED <<ack_channel, closed, cluster_max_qos, connection_info,
                   session_info, heartbeat, qos_pkid, sub_pkid, retain_store,
                   message_log, client_subscribe, subscribe_cache>>

\* A push worker drops the waiter of a pair, with the data it received.
Drop(client_id, pkid) ==
    /\ <<client_id, pkid>> \in ack_manager
    /\ ack_manager' = ack_manager \ {<<client_id, pkid>>}
    /\ ack_channel' = [ack_channel EXCEPT ![<<client_id, pkid>>] = <<>>]
    /\ last' = [NoCall EXCEPT !.op = "drop", !.pkid = pkid]
    /\ UNCHANGED <<runtime, handler>>
    /\ UNCHANGED <<closed, cluster_max_qos, connection_info, session_info,
                   heartbeat, qos_pkid, sub_pkid, retain_store, message_log,
                   client_subscribe, subscribe_cache>>

----------------------------------------------------------------------------
\* Mqtt5Service::publish_ack, publish_rec, publish_comp

\* ack_send that sends to the waiters of every client for the pkid.
ack_send_every_client(client_id, pkid, data) ==
    [w \in DOMAIN ack_channel |->
        IF w[2] = pkid /\ w \in ack_manager
        THEN Append(ack_channel[w], data) ELSE ack_channel[w]]

\* data.sx.send(data) on the waiter of the pair: the channels it leaves.
ack_send(client_id, pkid, data) ==
    [ack_channel EXCEPT ![<<client_id, pkid>>] = Append(@, data)]

\* The lookup of the Connection and of the waiter, and the send: env.send_ok
\* is the result of data.sx.send; sent tells whether send returned Ok.
ack_forward(connect_id, ack_type, pkid, env) ==
    LET connection == get_connection(connect_id)
        client_id == connection.client_id
    IN  IF connection # NoConn /\ ack_manager_get(client_id, pkid)
           /\ env.send_ok
        THEN [sent |-> TRUE,
              ack_channel |->
                  ack_send(client_id, pkid, AckPackageData(ack_type, pkid))]
        ELSE [sent |-> FALSE, ack_channel |-> ack_channel]

publish_ack(connect_id, pkid, env) ==
    LET f == ack_forward(connect_id, "PubAck", pkid, env)
    IN  [reply |-> NoReply, ack_channel |-> f.ack_channel]

\* publish_rec that answers PUBREL whether the send returned Ok or not.
publish_rec_always(connect_id, pkid, env) ==
    LET f == ack_forward(connect_id, "PubRec", pkid, env)
    IN  [reply |-> pub_rel(pkid, "Success"), ack_channel |-> f.ack_channel]

publish_rec(connect_id, pkid, env) ==
    LET f == ack_forward(connect_id, "PubRec", pkid, env)
    IN  IF f.sent
        THEN [reply |-> NoReply, ack_channel |-> f.ack_channel]
        ELSE [reply |-> pub_rel(pkid, "Success"),
              ack_channel |-> f.ack_channel]

publish_comp(connect_id, pkid, env) ==
    LET f == ack_forward(connect_id, "PubComp", pkid, env)
    IN  [reply |-> NoReply, ack_channel |-> f.ack_channel]

PubAck(connect_id, pkid, env) ==
    LET r == publish_ack(connect_id, pkid, env)
    IN  /\ AckTotal(r.ack_channel) <= MaxAcks
        /\ ack_channel' = r.ack_channel
        /\ last' = [op |-> "publish_ack", connect_id |-> connect_id,
                    pkid |-> pkid, qos |-> 0, filters |-> <<>>,
                    replay |-> FALSE, reply |-> r.reply]
        /\ UNCHANGED <<runtime, handler>>
        /\ UNCHANGED <<ack_manager, closed, cluster_max_qos, connection_info,
                       session_info, heartbeat, qos_pkid, sub_pkid,
                       retain_store, message_log, client_subscribe,
                       subscribe_cache>>

PubRec(connect_id, pkid, env) ==
    LET r == publish_rec(connect_id, pkid, env)
    IN  /\ AckTotal(r.ack_channel) <= MaxAcks
        /\ ack_channel' = r.ack_channel
        /\ last' = [op |-> "publish_rec", connect_id |-> connect_id,
                    pkid |-> pkid, qos |-> 0, filters |-> <<>>,
                    replay |-> FALSE, reply |-> r.reply]
        /\ UNCHANGED <<runtime, handler>>
        /\ UNCHANGED <<ack_manager, closed, cluster_max_qos, connection_info,
                       session_info, heartbeat, qos_pkid, sub_pkid,
                       retain_store, message_log, client_subscribe,
                       subscribe_cache>>

PubComp(connect_id, pkid, env) ==
    LET r == publish_comp(connect_id, pkid, env)
    IN  /\ AckTotal(r.ack_channel) <= MaxAcks
        /\ ack_channel' = r.ack_channel
        /\ last' = [op |-> "publish_comp", connect_id |-> connect_id,
                    pkid |-> pkid, qos |-> 0, filters |-> <<>>,
                    replay |-> FALSE, reply |-> r.reply]
        /\ UNCHANGED <<runtime, handler>>
        /\ UNCHANGED <<ack_manager, closed, cluster_max_qos, connection_info,
                       session_info, heartbeat, qos_pkid, sub_pkid,
                       retain_store, message_log, client_subscribe,
                       subscribe_cache>>

----------------------------------------------------------------------------
\* Mqtt5Service::disconnect

\* disconnect that leaves the Subscribe Cache entries of the client.
disconnect_keep_subscribe(connect_id) ==
    LET connection == get_connection(connect_id)
    IN  IF connection = NoConn
        THEN [reply |-> NoReply, connection_info |-> connection_info,
              subscribe_cache |-> subscribe_cache, heartbeat |-> heartbeat]
        ELSE [reply |-> distinct("NormalDisconnection", ""),
              connection_info |->
                  remove_connection(connection_info, connect_id),
              subscribe_cache |-> subscribe_cache,
              heartbeat |-> heartbeat \ {connect_id}]

disconnect(connect_id) ==
    LET connection == get_connection(connect_id)
    IN  IF connection = NoConn
        THEN [reply |-> NoReply, connection_info |-> connection_info,
              subscribe_cache |-> subscribe_cache, heartbeat |-> heartbeat]
        ELSE [reply |-> distinct("NormalDisconnection", ""),
              connection_info |->
                  remove_connection(connection_info, connect_id),
              subscribe_cache |->
                  remove_client(subscribe_cache, connection.client_id),
              heartbeat |-> heartbeat \ {connect_id}]

\* Disconnect that drops the idempotency entries of the client.
Disconnect_forget_pkid(connect_id) ==
    LET r == disconnect(connect_id)
        gone == IF get_connection(connect_id) = NoConn THEN {}
                ELSE {get_connection(connect_id).client_id} \X Pkids
    IN  /\ connection_info' = r.connection_info
        /\ subscribe_cache' = r.subscribe_cache
        /\ heartbeat' = r.heartbeat
        /\ closed' = closed \cup {connect_id}
        /\ qos_pkid' = qos_pkid \ gone
        /\ sub_pkid' = sub_pkid \ gone
        /\ last' = [op |-> "disconnect", connect_id |-> connect_id,
                    pkid |-> 0, qos |-> 0, filters |-> <<>>,
                    replay |-> FALSE, reply |-> r.reply]
        /\ UNCHANGED <<runtime, handler>>
        /\ UNCHANGED <<ack_manager, ack_channel, cluster_max_qos,
                       session_info, retain_store, message_log,
                       client_subscribe>>

Disconnect(connect_id) ==
    LET r == disconnect(connect_id)
    IN  /\ connection_info' = r.connection_info
        /\ subscribe_cache' = r.subscribe_cache
        /\ heartbeat' = r.heartbeat
        /\ closed' = closed \cup {connect_id}
        /\ last' = [op |-> "disconnect", connect_id |-> connect_id,
                    pkid |-> 0, qos |-> 0, filters |-> <<>>,
                    replay |-> FALSE, reply |-> r.reply]
        /\ UNCHANGED <<runtime, handler>>
        /\ UNCHANGED <<ack_manager, ack_channel, cluster_max_qos,
                       session_info, qos_pkid, sub_pkid, retain_store,
                       message_log, client_subscribe>>

----------------------------------------------------------------------------
\* Mqtt5Service::subscribe

\* subscribe_granted that grants the requested QoS.
subscribe_granted_requested(cluster_qos, filter) ==
    CASE filter.qos = 0 -> "QoS0"
      [] filter.qos = 1 -> "QoS1"
      [] filter.qos = 2 -> "QoS2"

\* The reason code of a valid filter: the granted QoS.
subscribe_granted(cluster_qos, filter) ==
    CASE min_qos(cluster_qos, filter.qos) = 0 -> "QoS0"
      [] min_qos(cluster_qos, filter.qos) = 1 -> "QoS1"
      [] min_qos(cluster_qos, filter.qos) = 2 -> "QoS2"

\* The loop over the filters: one reason code is pushed per filter, and
\* contain_success tells whether a filter passed the validator.
RECURSIVE subscribe_loop(_, _, _)
subscribe_loop(filters, cluster_qos, acc) ==
    IF filters = <<>> THEN acc
    ELSE LET filter == Head(filters)
         IN  IF ~sub_path_validator(filter.path)
             THEN subscribe_loop(Tail(filters), cluster_qos,
                      [acc EXCEPT !.return_codes =
                          Append(@, "TopicFilterInvalid")])
             ELSE subscribe_loop(Tail(filters), cluster_qos,
                      [return_codes |->
                           Append(acc.return_codes,
                                  subscribe_granted(cluster_qos, filter)),
                       contain_success |-> TRUE])

\* subscribe_all_invalid answering with one reason code per filter.
subscribe_all_invalid_each(packet) ==
    sub_ack(packet.packet_identifier,
            [i \in 1..Len(packet.filters) |-> "TopicFilterInvalid"])

\* The SUBACK of a SUBSCRIBE none of whose filters passed the validator.
subscribe_all_invalid(packet) ==
    sub_ack(packet.packet_identifier, <<"TopicFilterInvalid">>)

\* subscribe_pkid_in_use answering as for a SUBSCRIBE without valid filter.
subscribe_pkid_in_use_invalid(packet) ==
    sub_ack(packet.packet_identifier, <<"TopicFilterInvalid">>)

\* The SUBACK of a SUBSCRIBE whose packet identifier is in use.
subscribe_pkid_in_use(packet) ==
    sub_ack(packet.packet_identifier, <<"PkidInUse">>)

\* subscribe_save_pkid that saves nothing.
subscribe_save_pkid_skip(client_id, packet) == sub_pkid

\* The idempotency table subscribe leaves after save_sub_pkid_data.
subscribe_save_pkid(client_id, packet) ==
    sub_pkid \cup {<<client_id, packet.packet_identifier>>}

\* subscribe that undoes its changes when send_retain_message fails.
subscribe_rollback(connect_id, packet, env) ==
    LET unchanged == [replay |-> FALSE, sub_pkid |-> sub_pkid,
                      client_subscribe |-> client_subscribe,
                      subscribe_cache |-> subscribe_cache]
        connection == get_connection(connect_id)
        client_id == connection.client_id
        cluster_qos == cluster_max_qos
        loop == subscribe_loop(packet.filters, cluster_qos,
                    [return_codes |-> <<>>, contain_success |-> FALSE])
    IN  IF connection = NoConn
        THEN [reply |-> distinct("UnspecifiedError",
                                 NotFoundConnectionInCache)] @@ unchanged
        ELSE IF <<client_id, packet.packet_identifier>> \in sub_pkid
        THEN [reply |-> subscribe_pkid_in_use(packet)] @@ unchanged
        ELSE IF ~loop.contain_success
        THEN [reply |-> subscribe_all_invalid(packet)]
             @@ unchanged
        ELSE IF ~env.replay_ok
        THEN [reply |-> distinct("UnspecifiedError", StorageError),
              replay |-> TRUE] @@ unchanged
        ELSE [reply |-> sub_ack(packet.packet_identifier, loop.return_codes),
              replay |-> TRUE,
              sub_pkid |-> subscribe_save_pkid(client_id, packet),
              client_subscribe |->
                  add_client_subscribe(client_subscribe, client_id, packet),
              subscribe_cache |->
                  add_subscribe(subscribe_cache, client_id, packet)]

\* subscribe: env.replay_ok is the result of send_retain_message; replay
\* tells whether send_retain_message was called.
subscribe(connect_id, packet, env) ==
    LET unchanged == [replay |-> FALSE, sub_pkid |-> sub_pkid,
                      client_subscribe |-> client_subscribe,
                      subscribe_cache |-> subscribe_cache]
        connection == get_connection(connect_id)
        client_id == connection.client_id
        cluster_qos == cluster_max_qos
        loop == subscribe_loop(packet.filters, cluster_qos,
                    [return_codes |-> <<>>, contain_success |-> FALSE])
    IN  IF connection = NoConn
        THEN [reply |-> distinct("UnspecifiedError",
                                 NotFoundConnectionInCache)] @@ unchanged
        ELSE IF <<client_id, packet.packet_identifier>> \in sub_pkid
        THEN [reply |-> subscribe_pkid_in_use(packet)] @@ unchanged
        ELSE IF ~loop.contain_success
        THEN [reply |-> subscribe_all_invalid(packet)]
             @@ unchanged
        ELSE [reply |-> IF env.replay_ok
                        THEN sub_ack(packet.packet_identifier,
                                     loop.return_codes)
                        ELSE distinct("UnspecifiedError", StorageError),
              replay |-> TRUE,
              sub_pkid |-> subscribe_save_pkid(client_id, packet),
              client_subscribe |->
                  add_client_subscribe(client_subscribe, client_id, packet),
              subscribe_cache |->
                  add_subscribe(subscribe_cache, client_id, packet)]

Subscribe(connect_id, sub, env) ==
    LET r == subscribe(connect_id, sub, env)
    IN  /\ sub_pkid' = r.sub_pkid
        /\ client_subscribe' = r.client_subscribe
        /\ subscribe_cache' = r.subscribe_cache
        /\ last' = [op |-> "subscribe", connect_id |-> connect_id,
                    pkid |-> sub.packet_identifier, qos |-> 0,
                    filters |-> sub.filters, replay |-> r.replay,
                    reply |-> r.reply]
        /\ UNCHANGED <<runtime, handler>>
        /\ UNCHANGED <<ack_manager, ack_channel, closed, cluster_max_qos,
                       connection_info, session_info, heartbeat, qos_pkid,
                       retain_store, message_log>>

----------------------------------------------------------------------------
\* Mqtt5Service::un_subscribe

\* un_subscribe that leaves the Metadata Cache index as it is.
un_subscribe_cache_only(connect_id, packet) ==
    LET connection == get_connection(connect_id)
        client_id == connection.client_id
    IN  IF connection = NoConn
        THEN [reply |-> distinct("UnspecifiedError",
                                 NotFoundConnectionInCache),
              sub_pkid |-> sub_pkid,
              client_subscribe |-> client_subscribe,
              subscribe_cache |-> subscribe_cache]
        ELSE [reply |-> unsub_ack(packet.pkid, <<>>),
              sub_pkid |-> sub_pkid \ {<<client_id, packet.pkid>>},
              subscribe_cache |->
                  remove_subscribe(subscribe_cache, client_id,
                                   packet.filters),
              client_subscribe |-> client_subscribe]

un_subscribe(connect_id, packet) ==
    LET connection == get_connection(connect_id)
        client_id == connection.client_id
    IN  IF connection = NoConn
        THEN [reply |-> distinct("UnspecifiedError",
                                 NotFoundConnectionInCache),
              sub_pkid |-> sub_pkid,
              client_subscribe |-> client_subscribe,
              subscribe_cache |-> subscribe_cache]
        ELSE [reply |-> unsub_ack(packet.pkid, <<>>),
              sub_pkid |-> sub_pkid \ {<<client_id, packet.pkid>>},
              subscribe_cache |->
                  remove_subscribe(subscribe_cache, client_id,
                                   packet.filters),
              client_subscribe |->
                  remove_filter_by_pkid(client_subscribe, client_id,
                                        packet.filters)]

Unsubscribe(connect_id, unsub) ==
    LET r == un_subscribe(connect_id, unsub)
    IN  /\ sub_pkid' = r.sub_pkid
        /\ client_subscribe' = r.client_subscribe
        /\ subscribe_cache' = r.subscribe_cache
        /\ last' = [op |-> "un_subscribe", connect_id |-> connect_id,
                    pkid |-> unsub.pkid, qos |-> 0, filters |-> <<>>,
                    replay |-> FALSE, reply |-> r.reply]
        /\ UNCHANGED <<runtime, handler>>
        /\ UNCHANGED <<ack_manager, ack_channel, closed, cluster_max_qos,
                       connection_info, session_info, heartbeat, qos_pkid,
                       retain_store, message_log>>

----------------------------------------------------------------------------
\* Mqtt5Service::ping

ping(connect_id) ==
    IF get_connection(connect_id) = NoConn
    THEN [reply |-> distinct("UnspecifiedError", NotFoundConnectionInCache),
          heartbeat |-> heartbeat]
    ELSE [reply |-> ping_resp, heartbeat |-> heartbeat \cup {connect_id}]

Ping(connect_id) ==
    LET r == ping(connect_id)
    IN  /\ heartbeat' = r.heartbeat
        /\ last' = [op |-> "ping", connect_id |-> connect_id, pkid |-> 0,
                    qos |-> 0, filters |-> <<>>, replay |-> FALSE,
                    reply |-> r.reply]
        /\ UNCHANGED <<runtime, handler>>
        /\ UNCHANGED <<ack_manager, ack_channel, closed, cluster_max_qos,
                       connection_info, session_info, qos_pkid, sub_pkid,
                       retain_store, message_log, client_subscribe,
                       subscribe_cache>>

----------------------------------------------------------------------------
\* MqttBroker::start and the long-lived background tasks it spawns.

\* The background tasks: keep-alive reaper, session-expiry reaper,
\* cluster-heartbeat reporter, subscribe cache and push workers.
Tasks == {"keep_alive", "session_expiry", "cluster_heartbeat",
          "subscribe_manager", "exclusive_sub", "share_leader",
          "share_follower"}

Servers == {"grpc", "mqtt", "http"}

\* A task that was given no receiver of the stop signal.
NoRx == "none"

\* The broker before start is called.
NotStarted ==
    [pc |-> "register_node",
     servers |-> {},
     task |-> [t \in Tasks |-> "unspawned"],
     rx |-> [t \in Tasks |-> NoRx]]

\* runtime.spawn of the tasks ts, each in state st and with the receiver r.
spawn(ts, st, r, next) ==
    [runtime EXCEPT !.pc = next,
                    !.task = [t \in Tasks |-> IF t \in ts THEN st ELSE @[t]],
                    !.rx = [t \in Tasks |-> IF t \in ts THEN r ELSE @[t]]]

\* stop_send.subscribe(): a receiver with nothing queued.
subscribe_stop == <<>>

\* stop_send.send(flag): the value is queued at every receiver.
send_stop(flag) ==
    [t \in Tasks |-> IF runtime.rx[t] = NoRx THEN NoRx
                     ELSE Append(runtime.rx[t], flag)]

register_node ==
    /\ runtime.pc = "register_node"
    /\ runtime' = [runtime EXCEPT !.pc = "start_grpc_server"]
    /\ UNCHANGED <<cluster_max_qos, connection_info, session_info, heartbeat,
                   qos_pkid, sub_pkid, retain_store, message_log,
                   client_subscribe, subscribe_cache, ack_manager,
                   ack_channel, closed, handler, last>>

start_grpc_server ==
    /\ runtime.pc = "start_grpc_server"
    /\ runtime' = [runtime EXCEPT !.pc = "start_mqtt_server",
                                  !.servers = @ \cup {"grpc"}]
    /\ UNCHANGED <<cluster_max_qos, connection_info, session_info, heartbeat,
                   qos_pkid, sub_pkid, retain_store, message_log,
                   client_subscribe, subscribe_cache, ack_manager,
                   ack_channel, closed, handler, last>>

start_mqtt_server ==
    /\ runtime.pc = "start_mqtt_server"
    /\ runtime' = [runtime EXCEPT !.pc = "start_http_server",
                                  !.servers = @ \cup {"mqtt"}]
    /\ UNCHANGED <<cluster_max_qos, connection_info, session_info, heartbeat,
                   qos_pkid, sub_pkid, retain_store, message_log,
                   client_subscribe, subscribe_cache, ack_manager,
                   ack_channel, closed, handler, last>>

start_http_server ==
    /\ runtime.pc = "start_http_server"
    /\ runtime' = [runtime EXCEPT !.pc = "start_keep_alive_thread",
                                  !.servers = @ \cup {"http"}]
    /\ UNCHANGED <<cluster_max_qos, connection_info, session_info, heartbeat,
                   qos_pkid, sub_pkid, retain_store, message_log,
                   client_subscribe, subscribe_cache, ack_manager,
                   ack_channel, closed, handler, last>>

\* start_keep_alive_thread(stop_send.subscribe())
start_keep_alive_thread ==
    /\ runtime.pc = "start_keep_alive_thread"
    /\ runtime' = spawn({"keep_alive"}, "running", subscribe_stop,
                        "start_session_expiry_thread")
    /\ UNCHANGED <<cluster_max_qos, connection_info, session_info, heartbeat,
                   qos_pkid, sub_pkid, retain_store, message_log,
                   client_subscribe, subscribe_cache, ack_manager,
                   ack_channel, closed, handler, last>>

\* start_session_expiry_thread(): SessionExpiry::new() takes no receiver.
start_session_expiry_thread ==
    /\ runtime.pc = "start_session_expiry_thread"
    /\ runtime' = spawn({"session_expiry"}, "running", NoRx,
                        "start_cluster_heartbeat_report")
    /\ UNCHANGED <<cluster_max_qos, connection_info, session_info, heartbeat,
                   qos_pkid, sub_pkid, retain_store, message_log,
                   client_subscribe, subscribe_cache, ack_manager,
                   ack_channel, closed, handler, last>>

\* start_cluster_heartbeat_report(stop_send.subscribe()): the task starts
\* with a sleep.
start_cluster_heartbeat_report ==
    /\ runtime.pc = "start_cluster_heartbeat_report"
    /\ runtime' = spawn({"cluster_heartbeat"}, "sleep", subscribe_stop,
                        "start_push_server")
    /\ UNCHANGED <<cluster_max_qos, connection_info, session_info, heartbeat,
                   qos_pkid, sub_pkid, retain_store, message_log,
                   client_subscribe, subscribe_cache, ack_manager,
                   ack_channel, closed, handler, last>>

\* start_push_server(): the subscribe manager and the three push workers are
\* built without a receiver.
start_push_server ==
    /\ runtime.pc = "start_push_server"
    /\ runtime' = spawn({"subscribe_manager", "exclusive_sub",
                         "share_leader", "share_follower"},
                        "running", NoRx, "awaiting_stop")
    /\ UNCHANGED <<cluster_max_qos, connection_info, session_info, heartbeat,
                   qos_pkid, sub_pkid, retain_store, message_log,
                   client_subscribe, subscribe_cache, ack_manager,
                   ack_channel, closed, handler, last>>

\* awaiting_stop: ctrl-c arrives, true is broadcast and the loop is left.
awaiting_stop ==
    /\ runtime.pc = "awaiting_stop"
    /\ runtime' = [runtime EXCEPT !.pc = "stopped", !.rx = send_stop(TRUE)]
    /\ UNCHANGED <<cluster_max_qos, connection_info, session_info, heartbeat,
                   qos_pkid, sub_pkid, retain_store, message_log,
                   client_subscribe, subscribe_cache, ack_manager,
                   ack_channel, closed, handler, last>>

\* One turn of the loop of the cluster-heartbeat reporter: the sleep, the
\* try_recv that leaves the loop on true, the report.
cluster_heartbeat_report ==
    LET st == runtime.task["cluster_heartbeat"]
        rx == runtime.rx["cluster_heartbeat"]
    IN  /\ st \in {"sleep", "try_recv", "heartbeat"}
        /\ runtime' =
             CASE st = "sleep" ->
                    [runtime EXCEPT !.task["cluster_heartbeat"] = "try_recv"]
               [] st = "try_recv" /\ rx = <<>> ->
                    [runtime EXCEPT !.task["cluster_heartbeat"] = "heartbeat"]
               [] st = "try_recv" /\ rx # <<>> ->
                    [runtime EXCEPT
                        !.task["cluster_heartbeat"] =
                            IF Head(rx) THEN "exited" ELSE "heartbeat",
                        !.rx["cluster_heartbeat"] = Tail(rx)]
               [] st = "heartbeat" ->
                    [runtime EXCEPT !.task["cluster_heartbeat"] = "sleep"]
        /\ UNCHANGED <<cluster_max_qos, connection_info, session_info,
                       heartbeat, qos_pkid, sub_pkid, retain_store,
                       message_log, client_subscribe, subscribe_cache,
                       ack_manager, ack_channel, closed, handler, last>>

\* The keep-alive reaper on receipt of the stop signal.
keep_alive_stop ==
    LET rx == runtime.rx["keep_alive"]
    IN  /\ runtime.task["keep_alive"] = "running"
        /\ rx # NoRx /\ rx # <<>>
        /\ runtime' = [runtime EXCEPT
                          !.task["keep_alive"] =
                              IF Head(rx) THEN "exited" ELSE @,
                          !.rx["keep_alive"] = Tail(rx)]
        /\ UNCHANGED <<cluster_max_qos, connection_info, session_info,
                       heartbeat, qos_pkid, sub_pkid, retain_store,
                       message_log, client_subscribe, subscribe_cache,
                       ack_manager, ack_channel, closed, handler, last>>

----------------------------------------------------------------------------
\* Results of the calls connect awaits: at most one of them fails.
ConnectEnvs ==
    {e \in [auth : {"true", "false", "err"}, client_id_ok : BOOLEAN,
            session_ok : BOOLEAN] :
        /\ e.auth # "true" => e.client_id_ok /\ e.session_ok
        /\ ~e.client_id_ok => e.session_ok}

\* PUBLISH packets: every packet of a topic that resolves, and those of the
\* unresolvable topic with one payload (publish returns before reading it).
PublishPackets ==
    {p \in [topic : Topics \cup {NoTopic}, pkid : Pkids, qos : QoS,
            retain : BOOLEAN, payload : Payloads] :
        p.topic = NoTopic => ~p.retain /\ p.payload = <<7>>}

\* Results of the storage calls publish awaits: at most one of them fails.
PublishEnvs ==
    {e \in [topic_ok : BOOLEAN, retain_ok : BOOLEAN, append_ok : BOOLEAN] :
        /\ ~e.topic_ok => e.retain_ok /\ e.append_ok
        /\ ~e.retain_ok => e.append_ok}

\* Inputs of publish: a failing storage call goes with the packets that reach
\* it and that differ in what publish has read by then (the topic lookup
\* precedes the payload policy; the retained store is called for retain=true
\* only; both stores are called after the payload policy).
PublishInputs ==
    {i \in PublishPackets \X PublishEnvs :
        LET pub == i[1]
            env == i[2]
        IN  /\ pub.topic = NoTopic =>
                env.topic_ok /\ env.retain_ok /\ env.append_ok
            /\ ~env.topic_ok => ~pub.retain /\ pub.payload = <<7>>
            /\ ~env.retain_ok => pub.retain /\ pub.payload = <<7>>
            /\ ~env.append_ok => pub.payload = <<7>>}

\* Inputs of publish that leave the retained store alone.
PublishInputsNoRetain == {i \in PublishInputs : ~i[1].retain}

\* Every call connect awaits succeeds.
ConnectOk == [auth |-> "true", client_id_ok |-> TRUE, session_ok |-> TRUE]

\* Filter paths of SUBSCRIBE, as sequences of levels: one that passes the
\* validator and one that does not.
FilterPaths == {<<"a", "#">>, <<"#", "a">>}

\* Filters carried by one SUBSCRIBE at most.
MaxFilters == 2

\* Filters: every requested QoS of a valid path, and the invalid path with
\* one requested QoS (subscribe does not read the QoS of an invalid filter).
Filters ==
    {f \in [path : FilterPaths, qos : QoS] :
        ~sub_path_validator(f.path) => f.qos = 0}

SeqsUpTo(S, n) == UNION {[1..k -> S] : k \in 1..n}

SubscribePackets ==
    [packet_identifier : Pkids, filters : SeqsUpTo(Filters, MaxFilters)]

\* SUBSCRIBE packets of one filter.
SubscribePacketsOne == {sub \in SubscribePackets : Len(sub.filters) = 1}

SubscribeEnvs == [replay_ok : BOOLEAN]

UnsubscribePackets == [pkid : Pkids, filters : SUBSET FilterPaths \ {{}}]

\* Two filter paths that pass the validator.
ValidPaths == {<<"a", "#">>, <<"a", "b">>}

\* SUBSCRIBE packets of one valid filter.
SubscribePacketsValid ==
    {[packet_identifier |-> k, filters |-> <<[path |-> q, qos |-> 0]>>] :
        k \in Pkids, q \in ValidPaths}

\* UNSUBSCRIBE packets of valid filter paths.
UnsubscribePacketsValid == [pkid : Pkids, filters : SUBSET ValidPaths \ {{}}]

----------------------------------------------------------------------------
\* publish and subscribe step by step: the guards on entries of
\* connection_info they take and drop, and the calls they await.

NoPub == [topic |-> NoTopic, pkid |-> 0, qos |-> 0, retain |-> FALSE,
          payload |-> <<>>]

NoSub == [packet_identifier |-> 0, filters |-> <<>>]

\* A connection without a call in progress.
Idle == [op |-> "idle", pc |-> "idle", guards |-> {}, pub |-> NoPub,
         sub |-> NoSub, connection |-> NoConn, client_id |-> "",
         offset |-> "-1"]

\* connection_info.get(&connect_id): the guard on the entry is taken.
acquire(guards, map) == guards \cup {map}

\* release that keeps the guard, as of a guard bound to a variable that
\* lives to the end of the function.
release_at_return(guards, map) == guards

\* The end of the let statement: the guard, a temporary of the statement, is
\* dropped once the record has been cloned out.
release(guards, map) == guards \ {map}

\* A writer of the map (add_connection, remove_connection) waits for the
\* guards on its entries.
CanWrite(map) == \A c \in ConnectIds : map \notin handler[c].guards

\* The packets of the step by step calls: QoS 2 PUBLISH with and without
\* retain, SUBSCRIBE of one filter.
StepPublishPackets ==
    {p \in [topic : Topics, pkid : {1}, qos : {2}, retain : BOOLEAN,
            payload : {<<7>>}] : TRUE}

StepSubscribePackets ==
    {[packet_identifier |-> 1, filters |-> <<[path |-> q, qos |-> 0]>>] :
        q \in FilterPaths}

\* The client of each connection of the step by step calls.
StepClient == [c \in ConnectIds |-> IF c = 1 THEN "c1" ELSE "c2"]

InFlight == Cardinality({c \in ConnectIds : handler[c].op = "publish"})

\* What no step of publish or subscribe writes.
StepFrame ==
    UNCHANGED <<runtime, cluster_max_qos, connection_info, session_info,
                heartbeat, ack_manager, ack_channel, closed>>

\* The call on connect_id c moves on as h.
Goto(c, h) ==
    /\ handler' = [handler EXCEPT ![c] = h]
    /\ UNCHANGED last

\* The call h on connect_id c returns reply; its guards are dropped.
Return(c, h, replay, reply) ==
    /\ handler' = [handler EXCEPT ![c] = Idle]
    /\ last' = [op |-> h.op, connect_id |-> c,
                pkid |-> IF h.op = "publish" THEN h.pub.pkid
                         ELSE h.sub.packet_identifier,
                qos |-> h.pub.qos, filters |-> h.sub.filters,
                replay |-> replay, reply |-> reply]

\* publish is called: publish_get_topic_name, then get_topic_info is awaited.
BeginPublish(c, pub) ==
    LET h == [Idle EXCEPT !.op = "publish", !.pc = "get_topic_info",
                          !.pub = pub]
    IN  /\ handler[c].op = "idle"
        /\ LogTotal(message_log) + InFlight < MaxLog
        /\ IF publish_get_topic_name(pub).ok
           THEN Goto(c, h)
           ELSE Return(c, h, FALSE, pub_ack_fail("UnspecifiedError"))
        /\ UNCHANGED <<qos_pkid, sub_pkid, retain_store, message_log,
                       client_subscribe, subscribe_cache>>
        /\ StepFrame

\* get_topic_info completes; on Ok the guard of the connection lookup is
\* taken.
Publish_get_topic_info(c) ==
    LET h == handler[c]
    IN  /\ h.op = "publish" /\ h.pc = "get_topic_info"
        /\ \E ok \in BOOLEAN :
             IF ok
             THEN Goto(c, [h EXCEPT !.pc = "connection_get",
                              !.guards = acquire(@, "connection_info")])
             ELSE Return(c, h, FALSE, pub_ack_fail("UnspecifiedError"))
        /\ UNCHANGED <<qos_pkid, sub_pkid, retain_store, message_log,
                       client_subscribe, subscribe_cache>>
        /\ StepFrame

\* let connection = ...: the record is cloned and the guard dropped; the
\* payload policy; the guard of the second lookup is taken.
Publish_connection_get(c) ==
    LET h == handler[c]
        connection == get_connection(c)
    IN  /\ h.op = "publish" /\ h.pc = "connection_get"
        /\ IF connection = NoConn
           THEN Return(c, h, FALSE, NotFoundConnection)
           ELSE IF publish_payload_invalid(connection, h.pub)
           THEN Return(c, h, FALSE, pub_ack_fail("PayloadFormatInvalid"))
           ELSE Goto(c, [h EXCEPT
                    !.pc = "client_id_get",
                    !.connection = connection,
                    !.guards = acquire(release(@, "connection_info"),
                                       "connection_info")])
        /\ UNCHANGED <<qos_pkid, sub_pkid, retain_store, message_log,
                       client_subscribe, subscribe_cache>>
        /\ StepFrame

\* let client_id = ...: the client_id is cloned and the guard dropped; then
\* get_qos_pkid_data is awaited.
Publish_client_id_get(c) ==
    LET h == handler[c]
        connection == get_connection(c)
    IN  /\ h.op = "publish" /\ h.pc = "client_id_get"
        /\ IF connection = NoConn
           THEN Return(c, h, FALSE, NotFoundConnection)
           ELSE Goto(c, [h EXCEPT
                    !.pc = "get_qos_pkid_data",
                    !.client_id = connection.client_id,
                    !.guards = release(@, "connection_info")])
        /\ UNCHANGED <<qos_pkid, sub_pkid, retain_store, message_log,
                       client_subscribe, subscribe_cache>>
        /\ StepFrame

\* get_qos_pkid_data completes; then the retained save or the append is
\* awaited.
Publish_get_qos_pkid_data(c) ==
    LET h == handler[c]
    IN  /\ h.op = "publish" /\ h.pc = "get_qos_pkid_data"
        /\ IF publish_pkid_in_use(h.client_id, h.pub)
           THEN Return(c, h, FALSE, pub_ack_fail("PacketIdentifierInUse"))
           ELSE Goto(c, [h EXCEPT !.pc = IF h.pub.retain
                                         THEN "save_retain_message"
                                         ELSE "append_topic_message"])
        /\ UNCHANGED <<qos_pkid, sub_pkid, retain_store, message_log,
                       client_subscribe, subscribe_cache>>
        /\ StepFrame

\* save_retain_message completes; then the append is awaited.
Publish_save_retain_message(c) ==
    LET h == handler[c]
    IN  /\ h.op = "publish" /\ h.pc = "save_retain_message"
        /\ \E ok \in BOOLEAN :
             IF ok
             THEN /\ retain_store' =
                        publish_save_retain(h.pub.topic, h.client_id, h.pub)
                  /\ Goto(c, [h EXCEPT !.pc = "append_topic_message"])
             ELSE /\ UNCHANGED retain_store
                  /\ Return(c, h, FALSE, publish_storage_error)
        /\ UNCHANGED <<qos_pkid, sub_pkid, message_log, client_subscribe,
                       subscribe_cache>>
        /\ StepFrame

\* append_topic_message completes; the reply by QoS, for which a QoS 2
\* publish awaits save_qos_pkid_data.
Publish_append_topic_message(c) ==
    LET h == handler[c]
        appended == append_topic_message(message_log, h.pub.topic,
                        build_record(h.client_id, h.pub))
        offset == FormatDebug(appended.offsets)
    IN  /\ h.op = "publish" /\ h.pc = "append_topic_message"
        /\ \E ok \in BOOLEAN :
             IF ~ok
             THEN /\ UNCHANGED message_log
                  /\ Return(c, h, FALSE, publish_storage_error)
             ELSE /\ message_log' = appended.log
                  /\ CASE h.pub.qos = 0 -> Return(c, h, FALSE, NoReply)
                       [] h.pub.qos = 1 ->
                            Return(c, h, FALSE,
                                   pub_ack(h.pub.pkid,
                                           <<<<"offset", offset>>>>))
                       [] h.pub.qos = 2 ->
                            Goto(c, [h EXCEPT !.pc = "save_qos_pkid_data",
                                              !.offset = offset])
        /\ UNCHANGED <<qos_pkid, sub_pkid, retain_store, client_subscribe,
                       subscribe_cache>>
        /\ StepFrame

\* save_qos_pkid_data completes and PUBREC is returned.
Publish_save_qos_pkid_data(c) ==
    LET h == handler[c]
    IN  /\ h.op = "publish" /\ h.pc = "save_qos_pkid_data"
        /\ qos_pkid' = save_qos_pkid_data(qos_pkid, h.connection.client_id,
                                          h.pub.pkid)
        /\ Return(c, h, FALSE,
                  pub_rec(h.pub.pkid, <<<<"offset", h.offset>>>>))
        /\ UNCHANGED <<sub_pkid, retain_store, message_log,
                       client_subscribe, subscribe_cache>>
        /\ StepFrame

\* subscribe is called: the guard of the connection lookup is taken.
BeginSubscribe(c, sub) ==
    /\ handler[c].op = "idle"
    /\ Goto(c, [Idle EXCEPT !.op = "subscribe", !.pc = "client_id_get",
                            !.sub = sub,
                            !.guards = acquire(@, "connection_info")])
    /\ UNCHANGED <<qos_pkid, sub_pkid, retain_store, message_log,
                   client_subscribe, subscribe_cache>>
    /\ StepFrame

\* let client_id = ...: the client_id is cloned and the guard dropped; then
\* get_sub_pkid_data is awaited.
Subscribe_client_id_get(c) ==
    LET h == handler[c]
        connection == get_connection(c)
    IN  /\ h.op = "subscribe" /\ h.pc = "client_id_get"
        /\ IF connection = NoConn
           THEN Return(c, h, FALSE, NotFoundConnection)
           ELSE Goto(c, [h EXCEPT
                    !.pc = "get_sub_pkid_data",
                    !.client_id = connection.client_id,
                    !.guards = release(@, "connection_info")])
        /\ UNCHANGED <<qos_pkid, sub_pkid, retain_store, message_log,
                       client_subscribe, subscribe_cache>>
        /\ StepFrame

\* get_sub_pkid_data completes; the loop over the filters; then
\* save_sub_pkid_data is awaited.
Subscribe_get_sub_pkid_data(c) ==
    LET h == handler[c]
        loop == subscribe_loop(h.sub.filters, cluster_max_qos,
                    [return_codes |-> <<>>, contain_success |-> FALSE])
    IN  /\ h.op = "subscribe" /\ h.pc = "get_sub_pkid_data"
        /\ IF <<h.client_id, h.sub.packet_identifier>> \in sub_pkid
           THEN Return(c, h, FALSE, subscribe_pkid_in_use(h.sub))
           ELSE IF ~loop.contain_success
           THEN Return(c, h, FALSE, subscribe_all_invalid(h.sub))
           ELSE Goto(c, [h EXCEPT !.pc = "save_sub_pkid_data"])
        /\ UNCHANGED <<qos_pkid, sub_pkid, retain_store, message_log,
                       client_subscribe, subscribe_cache>>
        /\ StepFrame

\* save_sub_pkid_data completes; add_client_subscribe; then add_subscribe is
\* awaited.
Subscribe_save_sub_pkid_data(c) ==
    LET h == handler[c]
    IN  /\ h.op = "subscribe" /\ h.pc = "save_sub_pkid_data"
        /\ sub_pkid' = subscribe_save_pkid(h.client_id, h.sub)
        /\ client_subscribe' =
               add_client_subscribe(client_subscribe, h.client_id, h.sub)
        /\ Goto(c, [h EXCEPT !.pc = "add_subscribe"])
        /\ UNCHANGED <<qos_pkid, retain_store, message_log, subscribe_cache>>
        /\ StepFrame

\* add_subscribe completes; then send_retain_message is awaited.
Subscribe_add_subscribe(c) ==
    LET h == handler[c]
    IN  /\ h.op = "subscribe" /\ h.pc = "add_subscribe"
        /\ subscribe_cache' = add_subscribe(subscribe_cache, h.client_id,
                                            h.sub)
        /\ Goto(c, [h EXCEPT !.pc = "send_retain_message"])
        /\ UNCHANGED <<qos_pkid, sub_pkid, retain_store, message_log,
                       client_subscribe>>
        /\ StepFrame

\* send_retain_message completes and subscribe returns.
Subscribe_send_retain_message(c) ==
    LET h == handler[c]
        loop == subscribe_loop(h.sub.filters, cluster_max_qos,
                    [return_codes |-> <<>>, contain_success |-> FALSE])
    IN  /\ h.op = "subscribe" /\ h.pc = "send_retain_message"
        /\ \E ok \in BOOLEAN :
             Return(c, h, TRUE,
                    IF ok THEN sub_ack(h.sub.packet_identifier,
                                       loop.return_codes)
                    ELSE distinct("UnspecifiedError", StorageError))
        /\ UNCHANGED <<qos_pkid, sub_pkid, retain_store, message_log,
                       client_subscribe, subscribe_cache>>
        /\ StepFrame

\* The awaits of the storage facades: retained save, log append, retained
\* replay.
StorageAwaits ==
    {"save_retain_message", "append_topic_message", "send_retain_message"}

\* The state after construction, for a cluster configuration of max_qos q.
InitWith(q) ==
    /\ cluster_max_qos = q
    /\ connection_info = [c \in ConnectIds |-> NoConn]
    /\ session_info = {}
    /\ heartbeat = {}
    /\ qos_pkid = {}
    /\ sub_pkid = {}
    /\ retain_store = [t \in Topics |-> NoMsg]
    /\ message_log = [t \in Topics |-> <<>>]
    /\ client_subscribe = [c \in ClientIds |-> {}]
    /\ subscribe_cache = [c \in ClientIds |-> {}]
    /\ ack_manager = {}
    /\ ack_channel = [w \in ClientIds \X Pkids |-> <<>>]
    /\ closed = {}
    /\ runtime = NotStarted
    /\ handler = [c \in ConnectIds |-> Idle]
    /\ last = NoCall

Init == \E q \in QoS : InitWith(q)

\* The publish side: connections of two clients on two connect_ids, PUBLISH
\* without retain and PUBREL.
InitPublish == InitWith(2)

NextPublish ==
    \/ \E c \in ConnectIds, id \in ClientIds, m \in PacketSizes :
          Connect(c, id, m, ConnectOk)
    \/ \E c \in ConnectIds, i \in PublishInputsNoRetain :
          Publish(c, i[1], i[2])
    \/ \E c \in ConnectIds, k \in Pkids : PubRel(c, k)
    \/ \E c \in ConnectIds : Disconnect(c)

Spec == InitPublish /\ [][NextPublish]_vars

\* The subscribe side: one client, SUBSCRIBE and UNSUBSCRIBE under every
\* cluster max_qos.
NextSubscribe ==
    \/ \E c \in {1}, id \in {"c1"}, m \in PacketSizes,
          env \in ConnectEnvs : Connect(c, id, m, env)
    \/ \E c \in {1}, sub \in SubscribePackets, env \in SubscribeEnvs :
          Subscribe(c, sub, env)
    \/ \E c \in {1}, unsub \in UnsubscribePackets : Unsubscribe(c, unsub)
    \/ \E c \in {1} : Disconnect(c)

SpecSubscribe == Init /\ [][NextSubscribe]_vars

\* The subscribe side with the broker never ceasing to handle packets.
SpecSubscribeLive == SpecSubscribe /\ WF_vars(NextSubscribe)

\* The handlers of the packets a client opens exchanges with, on the one
\* connection of one client: PUBLISH with and without retain, SUBSCRIBE of
\* one filter.
NextAll ==
    \/ \E m \in PacketSizes, env \in ConnectEnvs : Connect(1, "c1", m, env)
    \/ \E i \in PublishInputs : Publish(1, i[1], i[2])
    \/ \E k \in Pkids : PubRel(1, k)
    \/ \E sub \in SubscribePacketsOne, env \in SubscribeEnvs :
          Subscribe(1, sub, env)
    \/ \E unsub \in UnsubscribePackets : Unsubscribe(1, unsub)
    \/ Ping(1)
    \/ Disconnect(1)

SpecAll == InitWith(2) /\ [][NextAll]_vars

\* The subscriptions of two clients, each on its own connection: SUBSCRIBE
\* of one of two valid filters, UNSUBSCRIBE, DISCONNECT.
NextShare ==
    \/ \E m \in PacketSizes : Connect(1, "c1", m, ConnectOk)
    \/ \E m \in PacketSizes : Connect(2, "c2", m, ConnectOk)
    \/ \E c \in ConnectIds, sub \in SubscribePacketsValid,
          env \in SubscribeEnvs : Subscribe(c, sub, env)
    \/ \E c \in ConnectIds, unsub \in UnsubscribePacketsValid :
          Unsubscribe(c, unsub)
    \/ \E c \in ConnectIds : Disconnect(c)

SpecShare == InitWith(2) /\ [][NextShare]_vars

\* publish and subscribe step by step on the connections of two clients,
\* each client on its own connect_id, with CONNECT and DISCONNECT as the writers of connection_info: a frame of
\* a connection is handled when the call before it has returned, and a
\* writer waits for the guards on the map.
NextStep ==
    \/ \E c \in ConnectIds, m \in PacketSizes :
          /\ handler[c].op = "idle" /\ CanWrite("connection_info")
          /\ Connect(c, StepClient[c], m, ConnectOk)
    \/ \E c \in ConnectIds :
          /\ handler[c].op = "idle" /\ CanWrite("connection_info")
          /\ Disconnect(c)
    \/ \E c \in ConnectIds, pub \in StepPublishPackets : BeginPublish(c, pub)
    \/ \E c \in ConnectIds : Publish_get_topic_info(c)
    \/ \E c \in ConnectIds : Publish_connection_get(c)
    \/ \E c \in ConnectIds : Publish_client_id_get(c)
    \/ \E c \in ConnectIds : Publish_get_qos_pkid_data(c)
    \/ \E c \in ConnectIds : Publish_save_retain_message(c)
    \/ \E c \in ConnectIds : Publish_append_topic_message(c)
    \/ \E c \in ConnectIds : Publish_save_qos_pkid_data(c)
    \/ \E c \in ConnectIds, sub \in StepSubscribePackets :
          BeginSubscribe(c, sub)
    \/ \E c \in ConnectIds : Subscribe_client_id_get(c)
    \/ \E c \in ConnectIds : Subscribe_get_sub_pkid_data(c)
    \/ \E c \in ConnectIds : Subscribe_save_sub_pkid_data(c)
    \/ \E c \in ConnectIds : Subscribe_add_subscribe(c)
    \/ \E c \in ConnectIds : Subscribe_send_retain_message(c)

SpecStep == InitWith(2) /\ [][NextStep]_vars

\* The broker from start to the stop signal: start spawns the servers and
\* the background tasks, the MQTT server handles the packets of one client
\* once it is spawned, the tasks that hold a receiver take the signal.
NextBroker ==
    \/ register_node
    \/ start_grpc_server
    \/ start_mqtt_server
    \/ start_http_server
    \/ start_keep_alive_thread
    \/ start_session_expiry_thread
    \/ start_cluster_heartbeat_report
    \/ start_push_server
    \/ awaiting_stop
    \/ cluster_heartbeat_report
    \/ keep_alive_stop
    \/ "mqtt" \in runtime.servers /\ \E m \in PacketSizes :
           Connect(1, "c1", m, ConnectOk)
    \/ "mqtt" \in runtime.servers /\ Ping(1)
    \/ "mqtt" \in runtime.servers /\ Disconnect(1)

SpecBroker == InitWith(2) /\ [][NextBroker]_vars

AckEnvs == [send_ok : BOOLEAN]

\* The acknowledgements of broker deliveries: connections of two clients on
\* two connect_ids, push workers registering and dropping waiters, inbound
\* PUBACK, PUBREC and PUBCOMP.
NextAck ==
    \/ \E c \in ConnectIds, id \in ClientIds, m \in PacketSizes :
          Connect(c, id, m, ConnectOk)
    \/ \E id \in ClientIds, k \in Pkids : Register(id, k)
    \/ \E id \in ClientIds, k \in Pkids : Drop(id, k)
    \/ \E c \in ConnectIds, k \in Pkids, env \in AckEnvs : PubAck(c, k, env)
    \/ \E c \in ConnectIds, k \in Pkids, env \in AckEnvs : PubRec(c, k, env)
    \/ \E c \in ConnectIds, k \in Pkids, env \in AckEnvs : PubComp(c, k, env)

SpecAck == InitWith(2) /\ [][NextAck]_vars

----------------------------------------------------------------------------
\* Properties.

\* The caches, tables and stores: every variable but the record of the call.
state == <<runtime, handler, cluster_max_qos, connection_info, session_info, heartbeat,
           qos_pkid, sub_pkid, retain_store, message_log, client_subscribe,
           subscribe_cache, ack_manager, ack_channel>>

Pairs == ClientIds \X Pkids

Active(c) == connection_info[c] # NoConn

ClientOf(c) == connection_info[c].client_id

NotFoundReply == distinct("UnspecifiedError", NotFoundConnectionInCache)

C2_Qos2Handshake ==
    [][\A pair \in Pairs :
        LET on_client == /\ last'.connect_id \in ConnectIds
                         /\ ClientOf(last'.connect_id) = pair[1]
                         /\ last'.pkid = pair[2]
            pubrec == /\ last'.op = "publish" /\ on_client
                      /\ last'.reply.kind = "PubRec"
                      /\ last'.reply.pkid = pair[2]
            pubrel == last'.op = "publish_rel" /\ on_client
            success == last'.reply = publish_comp_success(pair[2])
        IN  /\ pubrec => pair \in qos_pkid'
            /\ (pair \notin qos_pkid /\ pair \in qos_pkid') => pubrec
            /\ (pair \in qos_pkid /\ ~pubrel) => pair \in qos_pkid'
            /\ (pair \in qos_pkid /\ pubrel) =>
                   (success /\ pair \notin qos_pkid')
            /\ (pubrel /\ success) => pair \in qos_pkid
    ]_vars

\* C2 witness: a PUBREL returned PUBCOMP success while the pair of another
\* QoS 2 publish is still awaiting its PUBREL.
C2_Witness ==
    /\ last.op = "publish_rel"
    /\ last.reply = publish_comp_success(last.pkid)
    /\ Active(last.connect_id)
    /\ <<ClientOf(last.connect_id), last.pkid>> \notin qos_pkid
    /\ qos_pkid # {}

\* The packets of a topic that resolves, with a payload the connection
\* accepts, on a call whose topic lookup succeeds.
PassesPolicy(c, pub, env) ==
    /\ Active(c)
    /\ pub.topic # NoTopic
    /\ env.topic_ok
    /\ Len(pub.payload) > 0
    /\ Len(pub.payload) <= connection_info[c].max_packet_size

\* C3 as stated: every QoS 2 PUBLISH whose pair is in the idempotency set is
\* answered with PUBACK(PacketIdentifierInUse) and leaves the set unchanged.
C3_Original ==
    [][\A c \in ConnectIds, pub \in PublishPackets, env \in PublishEnvs :
        (/\ Active(c)
         /\ pub.qos = 2
         /\ <<ClientOf(c), pub.pkid>> \in qos_pkid
         /\ Publish(c, pub, env)) =>
            /\ last'.reply = pub_ack_fail("PacketIdentifierInUse")
            /\ qos_pkid' = qos_pkid
    ]_vars

\* C3 amended: a QoS 2 PUBLISH that passes topic resolution and the payload
\* policy and whose pair is in the idempotency set is answered with
\* PUBACK(PacketIdentifierInUse), not PUBREC; the set, the retained store and
\* the message log are unchanged.
C3_DuplicatePkid ==
    \A c \in ConnectIds, pub \in PublishPackets, env \in PublishEnvs :
        (/\ PassesPolicy(c, pub, env)
         /\ pub.qos = 2
         /\ <<ClientOf(c), pub.pkid>> \in qos_pkid) =>
            LET r == publish(c, pub, env)
            IN  /\ r.reply = pub_ack_fail("PacketIdentifierInUse")
                /\ r.qos_pkid = qos_pkid
                /\ <<ClientOf(c), pub.pkid>> \in r.qos_pkid
                /\ r.retain_store = retain_store
                /\ r.message_log = message_log

\* C3 witness: a QoS 2 PUBLISH was answered with PacketIdentifierInUse while
\* its pair is in the set.
C3_Witness ==
    /\ last.op = "publish" /\ last.qos = 2
    /\ last.reply = pub_ack_fail("PacketIdentifierInUse")
    /\ Active(last.connect_id)
    /\ <<ClientOf(last.connect_id), last.pkid>> \in qos_pkid

\* What a PUBLISH or SUBSCRIBE leaves alone when it does not succeed.
NoPublishSubscribeEffect ==
    UNCHANGED <<message_log, retain_store, qos_pkid, sub_pkid,
                client_subscribe, subscribe_cache>>

\* A DISCONNECT on a connect_id leaves it closed, a closed connect_id has no
\* Connection, and it stays closed until a CONNECT succeeds on it.
ClosedUntilConnect ==
    \A c \in ConnectIds :
        /\ (last'.op = "disconnect" /\ last'.connect_id = c) => c \in closed'
        /\ c \in closed' => connection_info'[c] = NoConn
        /\ (c \in closed /\ c \notin closed') =>
               /\ last'.op = "connect" /\ last'.connect_id = c
               /\ last'.reply = packet_connect_success

\* C4 as stated: from a DISCONNECT on a connect_id until the next successful
\* CONNECT on it, every PUBLISH or SUBSCRIBE on it is answered with
\* DISCONNECT(UnspecifiedError, "not found connection in cache") and has no
\* effect.
C4_Original ==
    [][/\ ClosedUntilConnect
       /\ (/\ last'.op \in {"publish", "subscribe"}
           /\ last'.connect_id \in closed) =>
              /\ last'.reply = NotFoundReply
              /\ NoPublishSubscribeEffect
    ]_vars

\* C4 amended: from a DISCONNECT on a connect_id until the next successful
\* CONNECT on it, no PUBLISH or SUBSCRIBE on it succeeds: it is answered with
\* DISCONNECT(UnspecifiedError, "not found connection in cache"), or, for a
\* PUBLISH whose topic does not resolve or whose topic lookup fails, with
\* PUBACK(UnspecifiedError); it appends no record, saves no retained
\* message, adds no idempotency entry and adds no subscription.
C4_ClosedConnectionRejects ==
    [][/\ ClosedUntilConnect
       /\ (/\ last'.op \in {"publish", "subscribe"}
           /\ last'.connect_id \in closed) =>
              /\ \/ last'.reply = NotFoundReply
                 \/ /\ last'.op = "publish"
                    /\ last'.reply = pub_ack_fail("UnspecifiedError")
              /\ NoPublishSubscribeEffect
    ]_vars

\* C4 witness: a SUBSCRIBE was answered "not found connection in cache" on
\* the connect_id of a client that had connected and disconnected.
C4_Witness ==
    /\ last.op = "subscribe"
    /\ last.reply = NotFoundReply
    /\ last.connect_id \in closed
    /\ session_info # {}

QosCode(q) == CASE q = 0 -> "QoS0" [] q = 1 -> "QoS1" [] q = 2 -> "QoS2"

\* The reason code the SUBACK owes a filter.
FilterCode(filter) ==
    IF sub_path_validator(filter.path)
    THEN QosCode(IF cluster_max_qos <= filter.qos
                 THEN cluster_max_qos ELSE filter.qos)
    ELSE "TopicFilterInvalid"

\* C6: in every SUBACK the reason-code list has as many entries as the
\* SUBSCRIBE has filters, and entry i is the reason code of filter i.
C6_OneCodePerFilter ==
    (last.op = "subscribe" /\ last.reply.kind = "SubAck") =>
        /\ Len(last.reply.return_codes) = Len(last.filters)
        /\ \A i \in 1..Len(last.filters) :
               \/ last.reply.return_codes[i] = FilterCode(last.filters[i])
               \/ last.reply.return_codes[i] = "PkidInUse"

\* C7: every granted-QoS reason code of a SUBACK stands at the place of a
\* valid filter and equals min(cluster max_qos, requested QoS), so it does
\* not exceed the cluster max_qos.
C7_GrantedQos ==
    (last.op = "subscribe" /\ last.reply.kind = "SubAck") =>
        \A i \in 1..Len(last.reply.return_codes) :
            \A q \in QoS :
                last.reply.return_codes[i] = QosCode(q) =>
                    /\ i <= Len(last.filters)
                    /\ sub_path_validator(last.filters[i].path)
                    /\ q <= cluster_max_qos
                    /\ q <= last.filters[i].qos
                    /\ q = cluster_max_qos \/ q = last.filters[i].qos

\* C7 witness: a SUBACK granted less than the QoS a filter requested.
C7_Witness ==
    /\ last.op = "subscribe" /\ last.reply.kind = "SubAck"
    /\ Len(last.filters) = 2
    /\ last.filters[2].qos = 2
    /\ last.reply.return_codes = <<"TopicFilterInvalid", "QoS1">>

\* C8: a retain=true PUBLISH with an empty payload on an active connection
\* leaves the retained store without an entry for its topic.
C8_EmptyRetainDeletes ==
    [][\A c \in ConnectIds, pub \in PublishPackets, env \in PublishEnvs :
        (/\ Active(c)
         /\ pub.topic # NoTopic
         /\ pub.retain /\ pub.payload = <<>>
         /\ env.topic_ok /\ env.retain_ok /\ env.append_ok
         /\ Publish(c, pub, env)) =>
            retain_store'[pub.topic] = NoMsg
    ]_vars

\* C9: a PUBREL whose pair is not in the idempotency set is answered with
\* PUBCOMP-fail, a PUBREL on a connect_id without Connection with DISCONNECT;
\* both change no cache, table or store.
C9_PubRelWithoutState ==
    [][last'.op = "publish_rel" =>
        LET c == last'.connect_id
        IN  /\ ~Active(c) =>
                /\ last'.reply = NotFoundReply
                /\ UNCHANGED state
            /\ (Active(c) /\ <<ClientOf(c), last'.pkid>> \notin qos_pkid) =>
                /\ last'.reply = publish_comp_fail(last'.pkid)
                /\ UNCHANGED state
    ]_vars

\* C9 witness: a PUBREL was answered with PUBCOMP-fail while another pair is
\* awaiting its PUBREL.
C9_Witness ==
    /\ last.op = "publish_rel"
    /\ last.reply = publish_comp_fail(last.pkid)
    /\ Active(last.connect_id)
    /\ qos_pkid # {}

\* C10: a PUBLISH accepted on an active connection appends exactly one
\* record to the log of its topic and is answered by QoS: no reply for QoS 0,
\* PUBACK(pkid, Success) with the offset of the append for QoS 1, PUBREC(pkid)
\* with the same offset for QoS 2, whose pair is then in the idempotency set.
C10_AcceptedPublish ==
    \A c \in ConnectIds, pub \in PublishPackets, env \in PublishEnvs :
        (/\ PassesPolicy(c, pub, env)
         /\ <<ClientOf(c), pub.pkid>> \notin qos_pkid
         /\ env.retain_ok /\ env.append_ok) =>
            LET r == publish(c, pub, env)
                offset == <<<<"offset",
                              ToString(<<Len(message_log[pub.topic])>>)>>>>
            IN  /\ Len(r.message_log[pub.topic])
                       = Len(message_log[pub.topic]) + 1
                /\ SubSeq(r.message_log[pub.topic], 1,
                          Len(message_log[pub.topic]))
                       = message_log[pub.topic]
                /\ r.message_log[pub.topic][Len(r.message_log[pub.topic])]
                       = [client_id |-> ClientOf(c),
                          payload |-> pub.payload]
                /\ \A t \in Topics \ {pub.topic} :
                       r.message_log[t] = message_log[t]
                /\ pub.qos = 0 =>
                       r.reply = NoReply /\ r.qos_pkid = qos_pkid
                /\ pub.qos = 1 =>
                       /\ r.reply = [kind |-> "PubAck", pkid |-> pub.pkid,
                                     reason |-> "Success",
                                     user_properties |-> offset]
                       /\ r.qos_pkid = qos_pkid
                /\ pub.qos = 2 =>
                       /\ r.reply = [kind |-> "PubRec", pkid |-> pub.pkid,
                                     reason |-> "Success",
                                     user_properties |-> offset]
                       /\ r.qos_pkid
                              = qos_pkid \cup {<<ClientOf(c), pub.pkid>>}

\* C10 witness: a QoS 2 PUBLISH was answered with PUBREC carrying the offset
\* of the second record of the log, and its pair is in the set.
C10_Witness ==
    /\ last.op = "publish" /\ last.reply.kind = "PubRec"
    /\ last.reply.user_properties = <<<<"offset", ToString(<<1>>)>>>>
    /\ \E t \in Topics : Len(message_log[t]) = 2
    /\ <<ClientOf(last.connect_id), last.pkid>> \in qos_pkid

\* C11: a QoS 0 or QoS 1 PUBLISH is never answered with
\* PUBACK(PacketIdentifierInUse).
C11_DuplicateCheckQos2Only ==
    [][(last'.op = "publish" /\ last'.qos \in {0, 1}) =>
           last'.reply # pub_ack_fail("PacketIdentifierInUse")
    ]_vars

\* C12 as stated: a PUBLISH on an active connection whose payload length is
\* not in (0, max_packet_size] is answered with PUBACK(PayloadFormatInvalid).
C12_Original ==
    [][\A c \in ConnectIds, pub \in PublishPackets, env \in PublishEnvs :
        (/\ Active(c)
         /\ publish_payload_invalid(connection_info[c], pub)
         /\ Publish(c, pub, env)) =>
            last'.reply = pub_ack_fail("PayloadFormatInvalid")
    ]_vars

\* C12 amended: a PUBLISH on an active connection whose topic resolves and
\* whose topic lookup succeeds is answered with PUBACK(PayloadFormatInvalid)
\* exactly when its payload length is not in (0, max_packet_size], the upper
\* bound being inclusive; it then writes nothing to the retained store, the
\* message log and the idempotency set.
C12_PayloadPolicy ==
    \A c \in ConnectIds, pub \in PublishPackets, env \in PublishEnvs :
        (Active(c) /\ pub.topic # NoTopic /\ env.topic_ok) =>
            LET r == publish(c, pub, env)
                accepted == /\ 0 < Len(pub.payload)
                            /\ Len(pub.payload)
                                   <= connection_info[c].max_packet_size
            IN  /\ accepted <=>
                       r.reply # pub_ack_fail("PayloadFormatInvalid")
                /\ ~accepted =>
                       /\ r.retain_store = retain_store
                       /\ r.message_log = message_log
                       /\ r.qos_pkid = qos_pkid

\* C12 witness: a PUBLISH was answered with PUBACK(PayloadFormatInvalid)
\* after a PUBLISH of the same client was appended to the log.
C12_Witness ==
    /\ last.op = "publish"
    /\ last.reply = pub_ack_fail("PayloadFormatInvalid")
    /\ Active(last.connect_id)
    /\ \E t \in Topics : \E i \in 1..Len(message_log[t]) :
           /\ message_log[t][i].client_id = ClientOf(last.connect_id)
           /\ Len(message_log[t][i].payload)
                  = connection_info[last.connect_id].max_packet_size

\* C13: when the retained-store save or the append of a PUBLISH fails, the
\* reply is DISCONNECT(UnspecifiedError) with the storage error string, and
\* no pair is added to the idempotency set.
C13_StorageFailure ==
    \A c \in ConnectIds, pub \in PublishPackets, env \in PublishEnvs :
        (/\ PassesPolicy(c, pub, env)
         /\ <<ClientOf(c), pub.pkid>> \notin qos_pkid
         /\ (pub.retain /\ ~env.retain_ok) \/ ~env.append_ok) =>
            LET r == publish(c, pub, env)
            IN  /\ r.reply = distinct("UnspecifiedError", StorageError)
                /\ r.reply.kind \notin {"PubAck", "PubRec"}
                /\ r.qos_pkid = qos_pkid
                /\ r.message_log = message_log

\* C13 witness: a QoS 2 PUBLISH was answered with the DISCONNECT of a storage
\* error and its pair is not in the idempotency set.
C13_Witness ==
    /\ last.op = "publish" /\ last.qos = 2
    /\ last.reply = distinct("UnspecifiedError", StorageError)
    /\ Active(last.connect_id)
    /\ <<ClientOf(last.connect_id), last.pkid>> \notin qos_pkid

\* The handlers of inbound acknowledgements and the ack_type each forwards.
AckOps == {"publish_ack", "publish_rec", "publish_comp"}

AckTypeOf(op) ==
    CASE op = "publish_ack" -> "PubAck"
      [] op = "publish_rec" -> "PubRec"
      [] op = "publish_comp" -> "PubComp"

\* C14 as stated: an inbound PUBACK or PUBCOMP has no reply; an inbound PUBREC
\* is answered with PUBREL(pkid, Success) exactly when no waiter is registered
\* for the pair, and has no reply when one is registered.
C14_Original ==
    [][LET c == last'.connect_id
           registered == /\ Active(c)
                         /\ <<ClientOf(c), last'.pkid>> \in ack_manager
       IN  /\ last'.op \in {"publish_ack", "publish_comp"} =>
                  last'.reply = NoReply
           /\ last'.op = "publish_rec" =>
                  /\ ~registered =>
                         last'.reply = pub_rel(last'.pkid, "Success")
                  /\ registered => last'.reply = NoReply
    ]_vars

\* C14 amended: an inbound PUBACK or PUBCOMP has no reply; an inbound PUBREC
\* has no reply exactly when it was sent to the waiter registered for the
\* pair, and is answered with PUBREL(pkid, Success) otherwise: when the
\* connect_id has no Connection, when no waiter is registered, and when the
\* send to the registered waiter fails.
C14_AckReplies ==
    [][LET c == last'.connect_id
           registered == /\ Active(c)
                         /\ <<ClientOf(c), last'.pkid>> \in ack_manager
           forwarded == ack_channel' # ack_channel
       IN  /\ last'.op \in {"publish_ack", "publish_comp"} =>
                  last'.reply = NoReply
           /\ last'.op = "publish_rec" =>
                  /\ last'.reply
                         \in {NoReply, pub_rel(last'.pkid, "Success")}
                  /\ last'.reply = NoReply <=> forwarded
                  /\ forwarded => registered
    ]_vars

\* C14 witness: an inbound PUBREC had no reply and the waiter of its pair
\* holds the PubRec data.
C14_Witness ==
    /\ last.op = "publish_rec" /\ last.reply = NoReply
    /\ Active(last.connect_id)
    /\ LET w == <<ClientOf(last.connect_id), last.pkid>>
       IN  /\ w \in ack_manager
           /\ Len(ack_channel[w]) > 0
           /\ ack_channel[w][Len(ack_channel[w])]
                  = AckPackageData("PubRec", last.pkid)

\* C15: an inbound PUBACK, PUBREC or PUBCOMP of packet id k on a connect_id of
\* client c reaches only the waiter registered for (c, k), as AckPackageData
\* of the kind of the packet and pkid k; no other waiter receives anything,
\* and nothing is forwarded when the connect_id has no Connection.
C15_ForwardToOwnWaiter ==
    [][last'.op \in AckOps =>
        LET c == last'.connect_id
            k == last'.pkid
        IN  /\ ~Active(c) => ack_channel' = ack_channel
            /\ Active(c) =>
                   LET w == <<ClientOf(c), k>>
                       data == AckPackageData(AckTypeOf(last'.op), k)
                   IN  /\ \A v \in Pairs \ {w} :
                              ack_channel'[v] = ack_channel[v]
                       /\ \/ ack_channel'[w] = ack_channel[w]
                          \/ /\ w \in ack_manager
                             /\ ack_channel'[w] = Append(ack_channel[w], data)
    ]_vars

\* C15 witness: an inbound PUBCOMP reached the waiter of its pair while the
\* waiter of the other client for the same pkid holds nothing.
C15_Witness ==
    /\ last.op = "publish_comp"
    /\ Active(last.connect_id)
    /\ LET w == <<ClientOf(last.connect_id), last.pkid>>
       IN  /\ Len(ack_channel[w]) > 0
           /\ ack_channel[w][Len(ack_channel[w])]
                  = AckPackageData("PubComp", last.pkid)
           /\ \E v \in ack_manager :
                  v[1] # w[1] /\ v[2] = w[2] /\ ack_channel[v] = <<>>

\* Every filter of the sequence fails the path validator.
AllInvalid(filters) ==
    \A i \in 1..Len(filters) : ~sub_path_validator(filters[i].path)

\* C16: a SUBSCRIBE whose pair is in the subscribe-idempotency set is
\* answered with SUBACK [PkidInUse]; no cache, table or store changes and
\* the retained replay is not called.
C16_SubscribePkidInUse ==
    [][(/\ last'.op = "subscribe"
        /\ Active(last'.connect_id)
        /\ <<ClientOf(last'.connect_id), last'.pkid>> \in sub_pkid) =>
           /\ last'.reply = sub_ack(last'.pkid, <<"PkidInUse">>)
           /\ UNCHANGED state
           /\ ~last'.replay
    ]_vars

\* C16 witness: a SUBSCRIBE with a valid filter was answered with
\* SUBACK [PkidInUse] and the filter is not in the Subscribe Cache.
C16_Witness ==
    /\ last.op = "subscribe"
    /\ last.reply = sub_ack(last.pkid, <<"PkidInUse">>)
    /\ Active(last.connect_id)
    /\ \E i \in 1..Len(last.filters) :
           /\ sub_path_validator(last.filters[i].path)
           /\ last.filters[i].path
                  \notin subscribe_cache[ClientOf(last.connect_id)]

\* C17 as stated: a SUBSCRIBE on an active connection in which every filter
\* fails the path validator is answered with SUBACK [TopicFilterInvalid].
C17_Original ==
    [][(/\ last'.op = "subscribe"
        /\ Active(last'.connect_id)
        /\ AllInvalid(last'.filters)) =>
           /\ last'.reply = sub_ack(last'.pkid, <<"TopicFilterInvalid">>)
           /\ UNCHANGED state
           /\ ~last'.replay
    ]_vars

\* C17 amended: a SUBSCRIBE on an active connection whose pair is not in the
\* subscribe-idempotency set and in which every filter fails the path
\* validator is answered with SUBACK [TopicFilterInvalid]; no cache, table
\* or store changes and the retained replay is not called.
C17_AllFiltersInvalid ==
    [][(/\ last'.op = "subscribe"
        /\ Active(last'.connect_id)
        /\ <<ClientOf(last'.connect_id), last'.pkid>> \notin sub_pkid
        /\ AllInvalid(last'.filters)) =>
           /\ last'.reply = sub_ack(last'.pkid, <<"TopicFilterInvalid">>)
           /\ UNCHANGED state
           /\ ~last'.replay
    ]_vars

\* C17 witness: a SUBSCRIBE of two invalid filters was answered with
\* SUBACK [TopicFilterInvalid] and its pair is not in the set.
C17_Witness ==
    /\ last.op = "subscribe"
    /\ Len(last.filters) = 2 /\ AllInvalid(last.filters)
    /\ last.reply = sub_ack(last.pkid, <<"TopicFilterInvalid">>)
    /\ Active(last.connect_id)
    /\ <<ClientOf(last.connect_id), last.pkid>> \notin sub_pkid

\* C18: after a SUBSCRIBE with valid and invalid filters, a filter that got
\* the reason code TopicFilterInvalid is neither in the Subscribe Cache nor in
\* the Metadata Cache subscription index of the client.
C18_OnlyValidStored ==
    (/\ last.op = "subscribe" /\ last.reply.kind = "SubAck"
     /\ Active(last.connect_id)
     /\ Len(last.reply.return_codes) = Len(last.filters)) =>
        \A i \in 1..Len(last.filters) :
            last.reply.return_codes[i] = "TopicFilterInvalid" =>
                /\ last.filters[i].path
                       \notin subscribe_cache[ClientOf(last.connect_id)]
                /\ last.filters[i].path
                       \notin client_subscribe[ClientOf(last.connect_id)]

\* C19: a pair in the subscribe-idempotency set eventually leaves it.
C19_PkidReleased ==
    \A w \in Pairs : (w \in sub_pkid) ~> (w \notin sub_pkid)

\* C20: a DISCONNECT on a connect_id with a Connection removes the
\* Connection, the Subscribe Cache entries of its client and the heartbeat of
\* the connect_id and is answered with DISCONNECT(NormalDisconnection); on a
\* connect_id without Connection it has no reply and changes nothing.
C20_Disconnect ==
    [][last'.op = "disconnect" =>
        LET c == last'.connect_id
        IN  /\ Active(c) =>
                /\ connection_info'
                       = [connection_info EXCEPT ![c] = NoConn]
                /\ subscribe_cache'
                       = [subscribe_cache EXCEPT ![ClientOf(c)] = {}]
                /\ heartbeat' = heartbeat \ {c}
                /\ c \in heartbeat
                /\ last'.reply = distinct("NormalDisconnection", "")
            /\ ~Active(c) =>
                /\ last'.reply = NoReply
                /\ UNCHANGED state
    ]_vars

\* C20 witness: a DISCONNECT was answered with NormalDisconnection and left
\* no Subscribe Cache entry of a client whose subscription index holds a
\* valid filter.
C20_Witness ==
    /\ last.op = "disconnect"
    /\ last.reply = distinct("NormalDisconnection", "")
    /\ ~Active(last.connect_id)
    /\ last.connect_id \notin heartbeat
    /\ \E id \in ClientIds :
           /\ subscribe_cache[id] = {}
           /\ \E q \in client_subscribe[id] : sub_path_validator(q)

\* The reason code of the CONNACK of a CONNECT whose environment fails.
ConnectFailCode(env) ==
    CASE env.auth = "false" -> "NotAuthorized"
      [] env.auth = "err" -> "ServiceUnavailable"
      [] env.auth = "true" /\ ~env.client_id_ok -> "BadClientId"
      [] env.auth = "true" /\ env.client_id_ok /\ ~env.session_ok ->
            "ServiceUnavailable"

\* C22: a CONNECT whose authentication returns false or fails, whose
\* client-id resolution fails or whose session build fails is answered with
\* the CONNACK of that reason code and adds no session, no connection and no
\* heartbeat; a CONNECT answered with a failed CONNACK changes no cache.
C22_FailedConnect ==
    /\ [](\A c \in ConnectIds, id \in ClientIds, m \in PacketSizes,
             env \in ConnectEnvs \ {ConnectOk} :
             LET r == connect(c, id, m, env)
             IN  /\ r.reply = packet_connect_fail(ConnectFailCode(env))
                 /\ r.session_info = session_info
                 /\ r.connection_info = connection_info
                 /\ r.heartbeat = heartbeat)
    /\ [][(last'.op = "connect" /\ last'.reply # packet_connect_success) =>
             /\ last'.reply.kind = "ConnAck"
             /\ UNCHANGED state
       ]_vars

\* C22 witness: a CONNECT was answered with CONNACK(BadClientId) and there
\* is no session, no connection and no heartbeat.
C22_Witness ==
    /\ last.op = "connect"
    /\ last.reply = packet_connect_fail("BadClientId")
    /\ session_info = {}
    /\ connection_info[last.connect_id] = NoConn
    /\ heartbeat = {}

\* C23: every background task the broker has spawned holds a receiver of
\* the stop signal.
C23_TasksSubscribed ==
    \A t \in Tasks :
        runtime.task[t] # "unspawned" => runtime.rx[t] # NoRx

\* C21: an UNSUBSCRIBE on an active connection removes the listed filter
\* paths of the client of the connection from the Subscribe Cache and from
\* the Metadata Cache index, leaves its other filters and the subscriptions
\* of every other client, and is answered with UNSUBACK of the same pkid; on
\* a connect_id without Connection it is answered with DISCONNECT and
\* changes nothing.
C21_Unsubscribe ==
    /\ [](\A c \in ConnectIds, unsub \in UnsubscribePacketsValid :
             LET r == un_subscribe(c, unsub)
             IN  IF Active(c)
                 THEN /\ r.reply = unsub_ack(unsub.pkid, <<>>)
                      /\ \A id \in ClientIds :
                           /\ r.subscribe_cache[id] =
                                IF id = ClientOf(c)
                                THEN subscribe_cache[id] \ unsub.filters
                                ELSE subscribe_cache[id]
                           /\ r.client_subscribe[id] =
                                IF id = ClientOf(c)
                                THEN client_subscribe[id] \ unsub.filters
                                ELSE client_subscribe[id]
                 ELSE /\ r.reply.kind = "Disconnect"
                      /\ r.subscribe_cache = subscribe_cache
                      /\ r.client_subscribe = client_subscribe
                      /\ r.sub_pkid = sub_pkid)
    /\ [][last'.op = "un_subscribe" =>
            LET c == last'.connect_id
            IN  /\ Active(c) =>
                    /\ last'.reply = unsub_ack(last'.pkid, <<>>)
                    /\ \A id \in ClientIds \ {ClientOf(c)} :
                           /\ subscribe_cache'[id] = subscribe_cache[id]
                           /\ client_subscribe'[id] = client_subscribe[id]
                    /\ subscribe_cache'[ClientOf(c)]
                           \subseteq subscribe_cache[ClientOf(c)]
                    /\ client_subscribe'[ClientOf(c)]
                           \subseteq client_subscribe[ClientOf(c)]
                /\ ~Active(c) =>
                    /\ last'.reply.kind = "Disconnect"
                    /\ UNCHANGED state
       ]_vars

\* C21 witness: an UNSUBSCRIBE was answered with UNSUBACK, its client keeps
\* one of two filters in both caches and the other client keeps both.
C21_Witness ==
    /\ last.op = "un_subscribe"
    /\ last.reply = unsub_ack(last.pkid, <<>>)
    /\ Active(last.connect_id)
    /\ Cardinality(subscribe_cache[ClientOf(last.connect_id)]) = 1
    /\ Cardinality(client_subscribe[ClientOf(last.connect_id)]) = 1
    /\ \E id \in ClientIds \ {ClientOf(last.connect_id)} :
           /\ subscribe_cache[id] = ValidPaths
           /\ client_subscribe[id] = ValidPaths

\* C24: the filter paths of a client in the Metadata Cache index are those
\* of the client in the Subscribe Cache.
C24_IndexIsReplica ==
    \A id \in ClientIds : client_subscribe[id] = subscribe_cache[id]

\* C26: while (client_id, pkid) is in the publish idempotency set, a PUBLISH
\* of that client with that pkid writes neither the retained store nor the
\* message log; the PUBLISH answered with PUBREC appended one record and no
\* other handler writes them.
C26_OneRecordPerHandshake ==
    [][/\ (message_log' # message_log \/ retain_store' # retain_store) =>
            /\ last'.op = "publish"
            /\ Active(last'.connect_id)
            /\ <<ClientOf(last'.connect_id), last'.pkid>> \notin qos_pkid
       /\ (last'.op = "publish" /\ last'.reply.kind = "PubRec") =>
            /\ <<ClientOf(last'.connect_id), last'.pkid>> \notin qos_pkid
            /\ <<ClientOf(last'.connect_id), last'.pkid>> \in qos_pkid'
            /\ LogTotal(message_log') = LogTotal(message_log) + 1
       /\ (/\ last'.op = "publish"
           /\ Active(last'.connect_id)
           /\ <<ClientOf(last'.connect_id), last'.pkid>> \in qos_pkid) =>
            /\ last'.reply.kind \in {"PubAck", "Disconnect"}
            /\ last'.reply.reason # "Success"
    ]_vars

\* C26 witness: a PUBLISH that repeats the pkid of a QoS 2 publish awaiting
\* its PUBREL was rejected and the log holds the one record of the first.
C26_Witness ==
    /\ last.op = "publish"
    /\ last.reply = pub_ack_fail("PacketIdentifierInUse")
    /\ Active(last.connect_id)
    /\ qos_pkid = {<<ClientOf(last.connect_id), last.pkid>>}
    /\ LogTotal(message_log) = 1

\* DISCONNECT and CONNECT leave the two idempotency sets, and a pair leaves
\* its set only with a PUBREL or an UNSUBSCRIBE of its client for its pkid.
PkidSurvives ==
    /\ last'.op \in {"disconnect", "connect"} =>
           UNCHANGED <<qos_pkid, sub_pkid>>
    /\ \A w \in Pairs :
           /\ (w \in qos_pkid /\ w \notin qos_pkid') =>
                  /\ last'.op = "publish_rel" /\ last'.pkid = w[2]
                  /\ Active(last'.connect_id)
                  /\ ClientOf(last'.connect_id) = w[1]
           /\ (w \in sub_pkid /\ w \notin sub_pkid') =>
                  /\ last'.op = "un_subscribe" /\ last'.pkid = w[2]
                  /\ Active(last'.connect_id)
                  /\ ClientOf(last'.connect_id) = w[1]

\* A SUBSCRIBE on an active connection whose pair is in the set is answered
\* with SUBACK [PkidInUse].
SubscribeReuse ==
    (/\ last'.op = "subscribe"
     /\ Active(last'.connect_id)
     /\ <<ClientOf(last'.connect_id), last'.pkid>> \in sub_pkid) =>
        last'.reply = sub_ack(last'.pkid, <<"PkidInUse">>)

\* C27 as stated: the pairs survive DISCONNECT and CONNECT, and every QoS 2
\* PUBLISH (SUBSCRIBE) on an active connection that reuses the pkid of a pair
\* in the set is answered with PacketIdentifierInUse (PkidInUse).
C27_Original ==
    [][/\ PkidSurvives
       /\ SubscribeReuse
       /\ (/\ last'.op = "publish" /\ last'.qos = 2
           /\ Active(last'.connect_id)
           /\ <<ClientOf(last'.connect_id), last'.pkid>> \in qos_pkid) =>
              last'.reply = pub_ack_fail("PacketIdentifierInUse")
    ]_vars

\* C27 amended: the pairs survive DISCONNECT and CONNECT; a SUBSCRIBE that
\* reuses the pkid of a pair in the set is answered with PkidInUse, and a
\* QoS 2 PUBLISH that reuses it and passes topic resolution and the payload
\* policy is answered with PacketIdentifierInUse.
C27_PkidSurvivesDisconnect ==
    /\ [][PkidSurvives /\ SubscribeReuse]_vars
    /\ [](\A c \in ConnectIds, pub \in PublishPackets, env \in PublishEnvs :
            (/\ PassesPolicy(c, pub, env)
             /\ pub.qos = 2
             /\ <<ClientOf(c), pub.pkid>> \in qos_pkid) =>
                publish(c, pub, env).reply
                    = pub_ack_fail("PacketIdentifierInUse"))

\* C27 witness: a DISCONNECT was handled on the connection of a client that
\* has a pair in each of the two sets.
C27_Witness ==
    /\ last.op = "disconnect"
    /\ last.reply = distinct("NormalDisconnection", "")
    /\ connection_info[last.connect_id] = NoConn
    /\ \E id \in ClientIds, k \in Pkids :
           /\ \A c \in ConnectIds : ~(Active(c) /\ ClientOf(c) = id)
           /\ <<id, k>> \in qos_pkid
           /\ <<id, k>> \in sub_pkid

\* C28: a SUBSCRIBE whose retained replay fails is answered with
\* DISCONNECT(UnspecifiedError), not SUBACK; its pair is in the
\* subscribe-idempotency set, its filters are in the Metadata Cache index and
\* its valid filters in the Subscribe Cache.
C28_ReplayFailureKeepsState ==
    /\ [](\A c \in ConnectIds, sub \in SubscribePackets :
            (/\ Active(c)
             /\ <<ClientOf(c), sub.packet_identifier>> \notin sub_pkid
             /\ ~AllInvalid(sub.filters)) =>
                LET r == subscribe(c, sub, [replay_ok |-> FALSE])
                    valid == {q \in FilterPathsOf(sub.filters) :
                                 sub_path_validator(q)}
                IN  /\ r.replay
                    /\ r.reply = distinct("UnspecifiedError", StorageError)
                    /\ <<ClientOf(c), sub.packet_identifier>> \in r.sub_pkid
                    /\ valid \subseteq r.client_subscribe[ClientOf(c)]
                    /\ valid \subseteq r.subscribe_cache[ClientOf(c)])
    /\ [][(/\ last'.op = "subscribe" /\ last'.replay
           /\ last'.reply.kind = "Disconnect") =>
              LET id == ClientOf(last'.connect_id)
              IN  /\ <<id, last'.pkid>> \in sub_pkid'
                  /\ \A i \in 1..Len(last'.filters) :
                        sub_path_validator(last'.filters[i].path) =>
                            /\ last'.filters[i].path \in client_subscribe'[id]
                            /\ last'.filters[i].path \in subscribe_cache'[id]
       ]_vars

\* C28 witness: the first SUBSCRIBE of a client was answered with
\* DISCONNECT(UnspecifiedError) after the replay was called, and its pair and
\* a valid filter of it are stored.
C28_Witness ==
    /\ last.op = "subscribe" /\ last.replay
    /\ last.reply = distinct("UnspecifiedError", StorageError)
    /\ Active(last.connect_id)
    /\ sub_pkid = {<<ClientOf(last.connect_id), last.pkid>>}
    /\ \E i \in 1..Len(last.filters) :
           /\ last.filters[i].path \in client_subscribe[ClientOf(last.connect_id)]
           /\ last.filters[i].path \in subscribe_cache[ClientOf(last.connect_id)]

\* C25: a publish or subscribe call that awaits a storage facade (retained
\* save, log append, retained replay) holds no guard on connection_info, so
\* when every call in progress is suspended in storage a writer of the map
\* does not wait.
C25_NoGuardAcrossStorageAwait ==
    /\ \A c \in ConnectIds :
           handler[c].pc \in StorageAwaits => handler[c].guards = {}
    /\ (\A c \in ConnectIds :
           handler[c].op # "idle" => handler[c].pc \in StorageAwaits)
           => CanWrite("connection_info")

\* C25 witness: a publish awaits the log append and a subscribe the retained
\* replay, and no guard on connection_info is held.
C25_Witness ==
    /\ \E c \in ConnectIds :
           /\ handler[c].op = "publish"
           /\ handler[c].pc = "append_topic_message"
    /\ \E c \in ConnectIds :
           /\ handler[c].op = "subscribe"
           /\ handler[c].pc = "send_retain_message"
    /\ CanWrite("connection_info")

====
